---- MODULE Spec2Model ----
(***************************************************************************)
(* Model of matrix-bridge-wechat: the agent transport (WechatService and   *)
(* the WebSocket handler), the push-event broadcast channel, the inbound   *)
(* consumer loop of WechatBridge::start and the inbound text pipeline, the  *)
(* entity registry of WechatBridge and the Store's portal table, and the  *)
(* MatrixEventHandler side: login and logout, the outbound message        *)
(* handlers, redactions, the inbound revoke handler, and the loop of       *)
(* handle_transaction with handle_event's filters and the command route;  *)
(* the puppet's name updates, the createRoom request, the backoff          *)
(* strategies and the bounded cache; the MessageQueue and PriorityQueue,   *)
(* the RetryHandler, the ReconnectionManager and the task structure of    *)
(* main.                                                                   *)
(***************************************************************************)
EXTENDS Integers, Sequences, FiniteSets, TLC

----------------------------------------------------------------------------
(* Bounds of the model *)

\* number of concurrent callers of WechatService::request
MaxCallers == 2
\* number of agent connections accepted over a run
MaxConns == 2
\* number of subscribers of the broadcast channel in the transport model
MaxSubs == 2
\* capacity of the broadcast channel (1024 in the source, scaled down)
ChannelCapacity == 2
\* number of events the agent pushes over a run
MaxEvents == ChannelCapacity + 1
\* number of chat-network events the appservice handlers are given
MaxMxEvents == 3
\* number of events given to the outbound message and redaction handlers
MaxForwards == 2
\* the first event id of the chat network's own events; the ids below it
\* are those the RoomClient returned
FirstMxEventId == 101
\* number of concurrent get_portal_by_key calls
MaxTasks == 2

None == "none"
\* no PortalKey, no DbPortal row
NoKey == <<None, None>>
NoRow == [uid |-> None, receiver |-> None, mxid |-> 0]

Callers == 1..MaxCallers
Tasks == 1..MaxTasks
\* WechatBridge values: 1 is the clone the consumer task of start() owns,
\* 2 the clone handle_transaction makes for a transaction
Instances == {1, 2}
Conns == 1..MaxConns
Subs == 1..MaxSubs
Addrs == {"a1", "a2"}
Payloads == {"p1", "p2"}
\* ids a Response frame may carry: every id a caller can get, and one more
FrameIds == 1..(MaxCallers + 1)

----------------------------------------------------------------------------
(* ExternalEvent values *)

ChatIds == {"C1", "C2"}
SenderIds == {"U1"}
MsgIds == {"m1", "m2"}

\* event_type "notice" stands for the kinds handle_wechat_event only logs;
\* data is None, or an object without a msg_id string ("no_msg_id"), or the
\* msg_id the object carries
Events ==
    [id : MsgIds, chat : ChatIds, from : SenderIds,
     event_type : {"text"}, content : {None, "hello"}, data : {None}]
    \cup [id : MsgIds, chat : ChatIds, from : SenderIds,
          event_type : {"notice"}, content : {None}, data : {None}]
    \cup [id : MsgIds, chat : ChatIds, from : SenderIds,
          event_type : {"revoke"}, content : {None},
          data : {None, "no_msg_id"} \cup MsgIds]

NoEvent == [id |-> None, chat |-> None, from |-> None,
            event_type |-> None, content |-> None, data |-> None]

\* the events the agent pushes in the transport model
TransportEvents ==
    {e \in Events : e.id = "m1" /\ e.chat = "C1" /\ e.event_type = "notice"}

\* the events the agent pushes in the bridge model: text with content in
\* every chat and under every id, one text without content, one notice
BridgeEvents ==
    {e \in Events : /\ e.event_type # "revoke"
                    /\ \/ e.event_type = "text" /\ e.content # None
                       \/ e.id = "m1" /\ e.chat = "C1"}

\* the events the agent pushes in the revoke model: one text per chat under
\* the same id, and the revokes of chat C1 with every kind of data
RevokeEvents ==
    {e \in Events : \/ /\ e.event_type = "text"
                       /\ e.content # None
                       /\ e.id = "m1"
                    \/ /\ e.event_type = "revoke"
                       /\ e.id = "m1"
                       /\ e.chat = "C1"}

----------------------------------------------------------------------------
VARIABLES
    request_id,        \* WechatService.request_id (AtomicI64)
    pending_requests,  \* WechatService.pending_requests: id -> caller's waiter
    connections,       \* WechatService.connections: addr -> connection
    calls,             \* each request() call: position, id, connection
    oneshot,           \* the oneshot channel of each call: "empty", the value
                       \* sent, "closed" (sender dropped), "dropped" (receiver
                       \* dropped)
    conn,              \* each handle_socket task and its mpsc queue
    alloc_log,         \* ids in the order next_request_id returned them
    enqueued,          \* ids of the frames request() put on a connection queue
    event_tx,          \* broadcast channel: positions used and the ring
    subs,              \* broadcast receivers: cursor and what they received
    event_rx,          \* the receiver and the consumer task of WechatBridge::start
    handled,           \* result of handle_wechat_event for each event received
    portals_by_key,    \* WechatBridge.portals_by_key of the consumer's bridge
    portals_by_mxid,   \* WechatBridge.portals_by_mxid of the consumer's bridge
    puppets_by_uin,    \* WechatBridge.puppets_by_uin of the consumer's bridge
    db_portal,         \* Store: portal table, primary key (uid, receiver)
    db_puppet,         \* Store: puppet table, primary key uin
    db_message,        \* Store: message table
    create_room_calls, \* RoomClient: the createRoom calls: portal key and the
                       \* room made (0 when the call failed)
    sent_messages,     \* RoomClient: the text messages sent, by room
    reg_calls,         \* each get_portal_by_key call: position, bridge
                       \* instance, key, row read, Arc returned
    reg_by_key,        \* portals_by_key of each WechatBridge instance: the
                       \* Arc held for a key
    reg_heap,          \* the BridgePortal each Arc points at
    portal_table,      \* Store: the rows of the portal table, as a list
    redactions,        \* RoomClient: the redactions sent: room and event id
    db_user,           \* Store: user table, primary key mxid
    txn_users,         \* users_by_mxid of the bridge clone handling the
                       \* current transaction
    session,           \* accounts whose last login command logged them in
    agent_requests,    \* requests the outbound handlers made to the agent
    mx_log,            \* the chat-network events handled, with the result
    txn,               \* handle_transaction: the events of the transaction
                       \* being handled, the position of the loop, what
                       \* handle_event returned for each event so far, the
                       \* transactions that have returned
    puppet,            \* a BridgePuppet: its name fields, its row in the
                       \* Store, the displayname of its ghost account, the
                       \* updates made to it
    backoff,           \* a Backoff: strategy, BackoffConfig, current_delay,
                       \* retry_count, and what each call so far returned
    perf_cache,        \* a Cache: max_size, the entries with their
                       \* created_at, the clock, the calls waiting for the
                       \* lock, the number of calls done, of entries
                       \* evicted and of values replaced
    mqueue,            \* a MessageQueue: capacity, the VecDeque, the
                       \* Notify (stored permit and waiters), the calls
                       \* waiting for the lock, the position of each
                       \* wait_for_message call, and what the calls returned
    pqueue,            \* a PriorityQueue: capacity, the three VecDeques,
                       \* and the position of each push and pop call
    retry_handler,     \* a RetryHandler: its ExponentialBackoff, the
                       \* execute call in progress, and what the calls so
                       \* far did
    reconnection,      \* a ReconnectionManager: state, backoff,
                       \* stop_signal, the holder of the backoff lock, and
                       \* the position of each call
    main_proc          \* main: the position of main and of the tasks it
                       \* spawned

transportVars == <<request_id, pending_requests, connections, calls, oneshot,
                   conn, alloc_log, enqueued>>
broadcastVars == <<event_tx, subs>>
registryVars == <<reg_calls, reg_by_key, reg_heap, portal_table>>
perfVars == <<mqueue, pqueue>>
retryVars == <<retry_handler, reconnection>>
utilVars == <<puppet, backoff, perf_cache, perfVars, retryVars, main_proc>>
inboundVars == <<event_rx, handled, portals_by_key, portals_by_mxid,
                 puppets_by_uin, db_portal, db_puppet, db_message,
                 create_room_calls, sent_messages, redactions>>
matrixVars == <<db_user, txn_users, session, agent_requests, mx_log, txn>>
bridgeVars == <<inboundVars, registryVars, utilVars, matrixVars>>
vars == <<request_id, pending_requests, connections, calls, oneshot, conn,
          alloc_log, enqueued, event_tx, subs, event_rx, handled,
          portals_by_key, portals_by_mxid, puppets_by_uin, db_portal,
          db_puppet, db_message, create_room_calls, sent_messages,
          reg_calls, reg_by_key, reg_heap, portal_table, redactions,
          db_user, txn_users, session, agent_requests, mx_log, txn,
          puppet, backoff, perf_cache, mqueue, pqueue, retry_handler,
          reconnection, main_proc>>

----------------------------------------------------------------------------
(* WechatService: pure helpers *)

\* mutation of next_request_id: the counter stops advancing after the first id
next_request_id_stuck(v) == IF v = 0 THEN 1 ELSE v

\* fetch_add(1, SeqCst) + 1 on the counter value v
next_request_id(v) == v + 1

\* HashMap::insert on the pending map
PendingInsert(p, id, r) ==
    [x \in (DOMAIN p) \cup {id} |-> IF x = id THEN r ELSE p[x]]

\* mutation of PendingRemove: the entry is left in the map
PendingRemoveNothing(p, id) == p

\* HashMap::remove on the pending map
PendingRemove(p, id) == [x \in (DOMAIN p) \ {id} |-> p[x]]

\* mutation of PendingLookup: the frame resolves some pending waiter,
\* whatever its id
PendingLookupAny(p, id) ==
    IF DOMAIN p = {} THEN {} ELSE {CHOOSE i \in DOMAIN p : TRUE}

\* the waiter a Response frame with this id takes out of the pending map
PendingLookup(p, id) == IF id \in DOMAIN p THEN {id} ELSE {}

\* conns.values().next().cloned(): the first value in the map's iteration
\* order, which the HashMap does not specify
get_connection(conns) ==
    IF \A a \in Addrs : conns[a] = 0
    THEN {0}
    ELSE {conns[a] : a \in {b \in Addrs : conns[b] # 0}}

\* HashMap::insert(addr, conn) on the connections map
ConnectionsInsert(conns, a, c) == [conns EXCEPT ![a] = c]

\* HashMap::remove(&addr) on the connections map
ConnectionsRemove(conns, a) == [conns EXCEPT ![a] = 0]

----------------------------------------------------------------------------
(* broadcast channel (tokio::sync::broadcast) *)

\* the receivers alive: the subscribers and the bridge's consumer (0)
ActiveSubs ==
    {s \in Subs : subs[s].active}
    \cup (IF event_rx.state = "running" THEN {0} ELSE {})

\* the last n elements of a sequence
LastN(q, n) == IF Len(q) <= n THEN q ELSE SubSeq(q, Len(q) - n + 1, Len(q))

\* Sender::send: with no receiver the value is returned to the sender; else
\* it takes the next position and overwrites the oldest slot of the ring
BroadcastSend(ch, e, receivers) ==
    IF receivers = {}
    THEN ch
    ELSE [tail |-> ch.tail + 1,
          buf |-> LastN(Append(ch.buf, e), ChannelCapacity)]

\* Receiver::recv with `next` positions consumed: "empty", "lagged" (the
\* slot of position next + 1 was overwritten) or "value"
BroadcastRecvKind(ch, next) ==
    IF ch.tail - next > ChannelCapacity THEN "lagged"
    ELSE IF next = ch.tail THEN "empty"
    ELSE "value"

\* a receiver that returns the value sent last, whatever its cursor
BroadcastNewest(ch, next) == ch.buf[Len(ch.buf)]
\* the value recv returns for a cursor that is neither empty nor lagged
BroadcastValue(ch, next) == ch.buf[next - (ch.tail - Len(ch.buf)) + 1]

\* cursor after a Lagged error: the oldest position still in the ring
BroadcastLagCursor(ch) == ch.tail - ChannelCapacity

----------------------------------------------------------------------------
(* Frames the agent writes on the socket *)

Frames ==
    [msg_type : {"response"}, id : FrameIds,
     data : {"ok"}, payload : Payloads,
     request_type : {None}, ev : {None}, event : {NoEvent}]
    \cup
    [msg_type : {"response"}, id : {1},
     data : {"absent", "undecodable"}, payload : {None},
     request_type : {None}, ev : {None}, event : {NoEvent}]
    \cup
    [msg_type : {"request"}, id : {0},
     data : {"ok"}, payload : {None},
     request_type : {"event"},
     ev : {"absent", "undecodable", "ok"}, event : TransportEvents]
    \cup
    [msg_type : {"request"}, id : {0},
     data : {"ok"}, payload : {None},
     request_type : {"connect"}, ev : {"ok"}, event : TransportEvents]
    \cup
    [msg_type : {"request"}, id : {0},
     data : {"absent", "undecodable"}, payload : {None},
     request_type : {None}, ev : {None}, event : {NoEvent}]
    \cup
    [msg_type : {"invalid"}, id : {0}, data : {"absent"}, payload : {None},
     request_type : {None}, ev : {None}, event : {NoEvent}]

\* the frame decodes to a Response for a waiter
IsResponse(f) == f.msg_type = "response" /\ f.data = "ok"

\* mutation of IsEvent: the request type is not looked at
IsEventAnyType(f) ==
    /\ f.msg_type = "request"
    /\ f.data = "ok"
    /\ f.ev = "ok"

\* the frame decodes to a Request tagged Event carrying a decodable Event
IsEvent(f) ==
    /\ f.msg_type = "request"
    /\ f.data = "ok"
    /\ f.request_type = "event"
    /\ f.ev = "ok"

----------------------------------------------------------------------------
\* WechatService::new: no connection, no waiter, counter 0, empty channel
InitTransport ==
    /\ request_id = 0
    /\ pending_requests = <<>>
    /\ connections = [a \in Addrs |-> 0]
    /\ calls = [r \in Callers |->
                  [pc |-> "idle", id |-> 0, conn |-> 0]]
    /\ oneshot = [r \in Callers |-> "empty"]
    /\ conn = [c \in Conns |->
                 [state |-> "new", addr |-> None, outq |-> <<>>]]
    /\ alloc_log = <<>>
    /\ enqueued = {}
    /\ event_tx = [tail |-> 0, buf |-> <<>>]
    /\ subs = [s \in Subs |->
                 [active |-> FALSE, start |-> 0, next |-> 0, got |-> <<>>,
                  lagged |-> 0]]

\* WechatBridge::new: empty caches over an empty Store, consumer not started
InitInbound ==
    /\ event_rx = [state |-> "unstarted", next |-> 0]
    /\ handled = <<>>
    /\ portals_by_key = <<>>
    /\ portals_by_mxid = <<>>
    /\ puppets_by_uin = {}
    /\ db_portal = <<>>
    /\ db_puppet = {}
    /\ db_message = {}
    /\ create_room_calls = <<>>
    /\ sent_messages = <<>>
    /\ redactions = <<>>

\* no get_portal_by_key call yet, empty caches, empty portal table
InitRegistry ==
    /\ reg_calls = [t \in Tasks |->
                      [pc |-> "idle", inst |-> 0, key |-> NoKey,
                       row |-> NoRow, arc |-> 0]]
    /\ reg_by_key = [i \in Instances |-> <<>>]
    /\ reg_heap = <<>>
    /\ portal_table = <<>>

\* no user row, no transaction handled yet
InitMatrix ==
    /\ db_user = <<>>
    /\ txn_users = <<>>
    /\ session = {}
    /\ agent_requests = <<>>
    /\ mx_log = <<>>
    /\ txn = [events |-> <<>>, pos |-> 1, results |-> <<>>, returned |-> 0]

\* no Backoff and no Cache has been made yet
NoBackoff ==
    [strategy |-> None, initial_delay |-> 0, max_delay |-> 0,
     multiplier |-> 0, max_retries |-> 0, jitter |-> FALSE,
     current_delay |-> 0, retry_count |-> 0, log |-> <<>>]
NoCache == [max_size |-> 0, inner |-> <<>>, now |-> 0, pending |-> <<>>,
            done |-> 0, evicted |-> 0, replaced |-> 0]

\* DbPuppet::new: no displayname, quality 0, name not set
NoQuality == 0
NewPuppet == [displayname |-> None, name_quality |-> NoQuality,
              name_set |-> FALSE]

\* Option<QueueMessage>::None, as pop returns it; messages are numbered
\* from 1 in the order their pushes got the lock
NoQueueMessage == 0

\* no MessageQueue has been made yet
NoMessageQueue ==
    [capacity |-> 0, queue |-> <<>>, permit |-> FALSE, waiters |-> <<>>,
     pending |-> <<>>, pc |-> <<>>, got |-> <<>>, next_id |-> 1,
     front |-> {}, returned |-> {}, done |-> 0, last_op |-> None,
     last_full |-> FALSE, last_msg |-> NoQueueMessage]

\* no PriorityQueue has been made yet
NoPriorityQueue ==
    [capacity |-> 0, high |-> <<>>, normal |-> <<>>, low |-> <<>>,
     calls |-> <<>>, next_id |-> 1, done |-> 0, full |-> 0]

\* no RetryHandler has been made yet
NoRetryHandler ==
    [backoff |-> NoBackoff, pc |-> None, invocations |-> 0,
     executes |-> 0, last |-> None, last_invocations |-> 0]

\* no ReconnectionManager has been made yet; NoHolder: the write lock of
\* its backoff is free
NoHolder == 0
NoReconnection ==
    [state |-> None, backoff |-> NoBackoff, stop_signal |-> FALSE,
     holder |-> NoHolder, calls |-> <<>>, granted |-> 0, done |-> 0]

\* main after WechatBridge::new: nothing is spawned, no signal has arrived,
\* the select has taken no arm
MainStarted ==
    [main |-> "init", web |-> "unspawned", bridge |-> "unspawned",
     signal |-> FALSE, arm |-> None]

\* a puppet as get_puppet_by_uin makes it, not updated yet; no utility
\* object has been made
InitUtil ==
    /\ puppet = [inner |-> NewPuppet, row |-> NewPuppet, ghost |-> None,
                 log |-> <<>>]
    /\ backoff = NoBackoff
    /\ perf_cache = NoCache
    /\ mqueue = NoMessageQueue
    /\ pqueue = NoPriorityQueue
    /\ retry_handler = NoRetryHandler
    /\ reconnection = NoReconnection
    /\ main_proc = MainStarted

Init ==
    InitTransport /\ InitInbound /\ InitRegistry /\ InitMatrix /\ InitUtil

----------------------------------------------------------------------------
(* WechatService::request, one action per suspension point *)

\* let id = self.next_request_id()
ReqAlloc(r) ==
    /\ calls[r].pc = "idle"
    /\ \A q \in Callers : q < r => calls[q].pc # "idle"
    /\ request_id' = next_request_id(request_id)
    /\ calls' = [calls EXCEPT ![r].pc = "insert",
                              ![r].id = next_request_id(request_id)]
    /\ alloc_log' = Append(alloc_log, next_request_id(request_id))
    /\ UNCHANGED <<pending_requests, connections, oneshot, conn, enqueued>>
    /\ UNCHANGED broadcastVars
    /\ UNCHANGED bridgeVars

\* pending.insert(id, PendingRequest { tx }); a replaced waiter is dropped
ReqInsert(r) ==
    /\ calls[r].pc = "insert"
    /\ pending_requests' = PendingInsert(pending_requests, calls[r].id, r)
    /\ oneshot' =
         [x \in Callers |->
            IF /\ calls[r].id \in DOMAIN pending_requests
               /\ pending_requests[calls[r].id] = x
               /\ x # r
               /\ oneshot[x] = "empty"
            THEN "closed" ELSE oneshot[x]]
    /\ calls' = [calls EXCEPT ![r].pc = "getconn"]
    /\ UNCHANGED <<request_id, connections, conn, alloc_log, enqueued>>
    /\ UNCHANGED broadcastVars
    /\ UNCHANGED bridgeVars

\* let conn = self.get_connection().await
ReqGetConnection(r) ==
    /\ calls[r].pc = "getconn"
    /\ \E c \in get_connection(connections) :
         calls' = [calls EXCEPT ![r].pc = IF c = 0 THEN "noconn" ELSE "send",
                                ![r].conn = c]
    /\ UNCHANGED <<request_id, pending_requests, connections, oneshot, conn,
                   alloc_log, enqueued>>
    /\ UNCHANGED broadcastVars
    /\ UNCHANGED bridgeVars

\* conn.tx.send(json)?: fails once handle_socket has dropped the receiver,
\* and the `?` returns at once, dropping rx; the cloned Connection goes out
\* of scope on both paths
ReqSend(r) ==
    /\ calls[r].pc = "send"
    /\ LET c == calls[r].conn IN
         IF conn[c].state = "done"
         THEN /\ calls' = [calls EXCEPT ![r].pc = "err_send", ![r].conn = 0]
              /\ oneshot' = [oneshot EXCEPT ![r] = "dropped"]
              /\ UNCHANGED <<conn, enqueued>>
         ELSE /\ calls' = [calls EXCEPT ![r].pc = "wait", ![r].conn = 0]
              /\ conn' = [conn EXCEPT ![c].outq = Append(@, calls[r].id)]
              /\ enqueued' = enqueued \cup {calls[r].id}
              /\ UNCHANGED oneshot
    /\ UNCHANGED <<request_id, pending_requests, connections, alloc_log>>
    /\ UNCHANGED broadcastVars
    /\ UNCHANGED bridgeVars

\* no connection: pending.remove(&id); Err("no agent connection available")
ReqNoConnection(r) ==
    /\ calls[r].pc = "noconn"
    /\ pending_requests' = PendingRemove(pending_requests, calls[r].id)
    /\ calls' = [calls EXCEPT ![r].pc = "err_noconn"]
    /\ oneshot' = [oneshot EXCEPT ![r] = "dropped"]
    /\ UNCHANGED <<request_id, connections, conn, alloc_log, enqueued>>
    /\ UNCHANGED broadcastVars
    /\ UNCHANGED bridgeVars

\* timeout(REQUEST_TIMEOUT, rx) yields Ok(Ok(response))
ReqResponse(r) ==
    /\ calls[r].pc = "wait"
    /\ oneshot[r] \in Payloads
    /\ calls' = [calls EXCEPT ![r].pc = "ok"]
    /\ UNCHANGED <<request_id, pending_requests, connections, oneshot, conn,
                   alloc_log, enqueued>>
    /\ UNCHANGED broadcastVars
    /\ UNCHANGED bridgeVars

\* the Ok(Err(_)) arm of the match needs a sender dropped without a send,
\* which only a waiter replaced under its own id would see: no action for it.
\* timeout(REQUEST_TIMEOUT, rx) yields Err(_): 30s passed with no value; the
\* Timeout future and the rx it owns are dropped
ReqTimeout(r) ==
    /\ calls[r].pc = "wait"
    /\ oneshot[r] = "empty"
    /\ calls' = [calls EXCEPT ![r].pc = "timedout"]
    /\ oneshot' = [oneshot EXCEPT ![r] = "dropped"]
    /\ UNCHANGED <<request_id, pending_requests, connections, conn, alloc_log,
                   enqueued>>
    /\ UNCHANGED broadcastVars
    /\ UNCHANGED bridgeVars

\* pending.remove(&id); Err("request timeout")
ReqTimeoutRemove(r) ==
    /\ calls[r].pc = "timedout"
    /\ pending_requests' = PendingRemove(pending_requests, calls[r].id)
    /\ calls' = [calls EXCEPT ![r].pc = "err_timeout"]
    /\ UNCHANGED <<request_id, connections, oneshot, conn, alloc_log, enqueued>>
    /\ UNCHANGED broadcastVars
    /\ UNCHANGED bridgeVars

----------------------------------------------------------------------------
(* handle_socket *)

\* a new agent is upgraded: the queue is created and the connection inserted
Connect(c, a) ==
    /\ conn[c].state = "new"
    /\ \A d \in Conns : d < c => conn[d].state # "new"
    /\ c = 1 => a = "a1"
    /\ conn' = [conn EXCEPT ![c].state = "open", ![c].addr = a]
    /\ connections' = ConnectionsInsert(connections, a, c)
    /\ UNCHANGED <<request_id, pending_requests, calls, oneshot, alloc_log,
                   enqueued>>
    /\ UNCHANGED broadcastVars
    /\ UNCHANGED bridgeVars

\* rx.recv() arm: the next queued frame is written to the socket, and a
\* failed write leaves the loop
SocketSend(c) ==
    /\ conn[c].state = "open"
    /\ conn[c].outq # <<>>
    /\ \E ok \in BOOLEAN :
         conn' = [conn EXCEPT
                    ![c].outq = Tail(@),
                    ![c].state = IF ok THEN "open" ELSE "closing"]
    /\ UNCHANGED <<request_id, pending_requests, connections, calls, oneshot,
                   alloc_log, enqueued>>
    /\ UNCHANGED broadcastVars
    /\ UNCHANGED bridgeVars

\* socket.recv() arm, a text frame
SocketRecv(c, f) ==
    /\ conn[c].state = "open"
    /\ IF IsResponse(f)
       THEN /\ pending_requests' =
                 IF PendingLookup(pending_requests, f.id) = {}
                 THEN pending_requests
                 ELSE PendingRemove(pending_requests, f.id)
            /\ oneshot' =
                 [x \in Callers |->
                    IF /\ \E i \in PendingLookup(pending_requests, f.id) :
                            pending_requests[i] = x
                       /\ oneshot[x] = "empty"
                    THEN f.payload ELSE oneshot[x]]
            /\ UNCHANGED event_tx
       ELSE IF IsEvent(f)
       THEN /\ event_tx.tail < MaxEvents
            /\ event_tx' = BroadcastSend(event_tx, f.event, ActiveSubs)
            /\ UNCHANGED <<pending_requests, oneshot>>
       ELSE UNCHANGED <<pending_requests, oneshot, event_tx>>
    /\ UNCHANGED <<request_id, connections, calls, conn, alloc_log, enqueued,
                   subs>>
    /\ UNCHANGED bridgeVars

\* socket.recv() arm: a close frame, an error or the end of the stream
SocketClosed(c) ==
    /\ conn[c].state = "open"
    /\ conn' = [conn EXCEPT ![c].state = "closing"]
    /\ UNCHANGED <<request_id, pending_requests, connections, calls, oneshot,
                   alloc_log, enqueued>>
    /\ UNCHANGED broadcastVars
    /\ UNCHANGED bridgeVars

\* after the loop: conns.remove(&addr); the queue's receiver is dropped
SocketCleanup(c) ==
    /\ conn[c].state = "closing"
    /\ connections' = ConnectionsRemove(connections, conn[c].addr)
    /\ conn' = [conn EXCEPT ![c].state = "done", ![c].outq = <<>>]
    /\ UNCHANGED <<request_id, pending_requests, calls, oneshot, alloc_log,
                   enqueued>>
    /\ UNCHANGED broadcastVars
    /\ UNCHANGED bridgeVars

----------------------------------------------------------------------------
(* subscribers of the broadcast channel *)

\* self.event_tx.subscribe(): the receiver starts at the current tail
subscribe_events(s) ==
    /\ ~subs[s].active
    /\ subs' = [subs EXCEPT ![s] = [active |-> TRUE, start |-> event_tx.tail,
                                    next |-> event_tx.tail, got |-> <<>>,
                                    lagged |-> 0]]
    /\ UNCHANGED event_tx
    /\ UNCHANGED transportVars
    /\ UNCHANGED bridgeVars

\* one Receiver::recv() by a subscriber that keeps its receiver
SubRecv(s) ==
    /\ subs[s].active
    /\ BroadcastRecvKind(event_tx, subs[s].next) # "empty"
    /\ IF BroadcastRecvKind(event_tx, subs[s].next) = "lagged"
       THEN subs' = [subs EXCEPT
                       ![s].lagged = @ + BroadcastLagCursor(event_tx)
                                       - subs[s].next,
                       ![s].next = BroadcastLagCursor(event_tx)]
       ELSE subs' = [subs EXCEPT
                       ![s].got = Append(@, subs[s].next + 1),
                       ![s].next = @ + 1]
    /\ UNCHANGED event_tx
    /\ UNCHANGED transportVars
    /\ UNCHANGED bridgeVars

----------------------------------------------------------------------------
(* Entity registry and Store of the bridge that consumes the events *)

\* HashMap::insert
MapPut(m, k, v) == [x \in (DOMAIN m) \cup {k} |-> IF x = k THEN v ELSE m[x]]

\* PortalKey::new(chat_id, sender_id) as handle_text_event builds it
PortalKeyOf(e) == <<e.chat, e.from>>

\* the DbPortal get_portal_by_key inserts on a Store miss (mxid 0 is None)
NewPortal == [mxid |-> 0, name |-> ""]

\* a registry whose cache hit returns the Portal with a room id
get_portal_by_key_with_room(cache, db, key) ==
    IF key \in DOMAIN cache
    THEN [portal |-> [cache[key] EXCEPT !.mxid = 1], cache |-> cache,
          db |-> db]
    ELSE IF key \in DOMAIN db
    THEN [portal |-> db[key], cache |-> MapPut(cache, key, db[key]),
          db |-> db]
    ELSE [portal |-> NewPortal, cache |-> MapPut(cache, key, NewPortal),
          db |-> MapPut(db, key, NewPortal)]

\* WechatBridge::get_portal_by_key: cache, then Store, then insert a new row;
\* a miss puts the portal into portals_by_key
get_portal_by_key(cache, db, key) ==
    IF key \in DOMAIN cache
    THEN [portal |-> cache[key], cache |-> cache, db |-> db]
    ELSE IF key \in DOMAIN db
    THEN [portal |-> db[key], cache |-> MapPut(cache, key, db[key]),
          db |-> db]
    ELSE [portal |-> NewPortal, cache |-> MapPut(cache, key, NewPortal),
          db |-> MapPut(db, key, NewPortal)]

\* WechatBridge::get_puppet_by_uin, reduced to the existence of the row
get_puppet_by_uin(cache, db, uin) ==
    IF uin \in cache
    THEN [cache |-> cache, db |-> db]
    ELSE [cache |-> cache \cup {uin}, db |-> db \cup {uin}]

\* Database::update_portal: UPDATE ... WHERE uid = .. AND receiver = ..
update_portal(db, key, portal) ==
    IF key \in DOMAIN db THEN [db EXCEPT ![key] = portal] ELSE db

\* the bridge bot's account, and the puppet account of an actor: "@", the
\* puppet prefix and the actor's id
BotMxid == "@wechatbot"
puppet_mxid(uin) == IF uin = "U1" THEN "@wechat_U1" ELSE "@wechat_"
PuppetMxids == {puppet_mxid(uin) : uin \in SenderIds}

\* event.chat.chat_type: a conversation is private or a group
ChatType(chat) == IF chat = "C1" THEN "private" ELSE "group"

\* the preset and the invite list of the CreateRoomRequest that
\* create_matrix_room builds
invite_list(user_mxid, puppet_mxid_) == <<user_mxid, puppet_mxid_>>
create_room_request(user_mxid, puppet_mxid_, is_direct) ==
    [preset |-> IF is_direct THEN "private_chat" ELSE "public_chat",
     invite |-> invite_list(user_mxid, puppet_mxid_)]

\* BridgePortal::get_matrix_room on the handler's own copy of the portal:
\* the stored room id if there is one, else create_matrix_room, which on
\* success stores the new id in the copy and in the Store
get_matrix_room(portal, key, user_mxid, puppet_mxid_, name, is_direct, db, rooms, create_ok) ==
    LET request == create_room_request(user_mxid, puppet_mxid_, is_direct)
    IN IF portal.mxid # 0
       THEN [ok |-> TRUE, room |-> portal.mxid, portal |-> portal,
             db |-> db, rooms |-> rooms]
       ELSE IF ~create_ok
       THEN [ok |-> FALSE, room |-> 0, portal |-> portal, db |-> db,
             rooms |-> Append(rooms, [key |-> key, room |-> 0,
                                      preset |-> request.preset,
                                      invite |-> request.invite])]
       ELSE LET room == Len(rooms) + 1
                made == [mxid |-> room,
                         name |-> IF name = None THEN portal.name ELSE name]
            IN [ok |-> TRUE, room |-> room, portal |-> made,
                db |-> update_portal(db, key, made),
                rooms |-> Append(rooms, [key |-> key, room |-> room,
                                         preset |-> request.preset,
                                         invite |-> request.invite])]

\* mutation of DbMessageOf: chat id and sender id change places
DbMessageOfSwapped(e, event_id) ==
    [chat_uid |-> e.from, chat_receiver |-> e.chat, msg_id |-> e.id,
     mxid |-> event_id]

\* the DbMessage handle_text_event builds
DbMessageOf(e, event_id) ==
    [chat_uid |-> e.chat, chat_receiver |-> e.from, msg_id |-> e.id,
     mxid |-> event_id]

\* Database::insert_message: a plain INSERT, rejected when the primary key
\* (chat_uid, chat_receiver, msg_id) is taken
insert_message(db, msg) ==
    IF \E m \in db : /\ m.chat_uid = msg.chat_uid
                      /\ m.chat_receiver = msg.chat_receiver
                      /\ m.msg_id = msg.msg_id
    THEN [ok |-> FALSE, db |-> db]
    ELSE [ok |-> TRUE, db |-> db \cup {msg}]

\* mutation of get_message_by_mxid: the event id is not looked at
get_message_by_any_mxid(db, mxid) == db

\* Database::get_message_by_mxid: filter on mxid, then first(): the rows one
\* of which is returned (None when there is none)
get_message_by_mxid(db, mxid) == {m \in db : m.mxid = mxid}

\* Database::get_message_by_wechat_id: filter on msg_id alone, then first()
get_message_by_wechat_id(db, msg_id) == {m \in db : m.msg_id = msg_id}

\* no Message: what first().optional() gives when no row matches
NoMessage == [chat_uid |-> None, chat_receiver |-> None, msg_id |-> None,
              mxid |-> 0]

\* first().optional() on the matching rows: any one of them, or None
FirstOf(rows) == IF rows = {} THEN {NoMessage} ELSE rows

\* the room ids as the strings the RoomClient is given
RoomNames == <<"!room1", "!room2", "!room3", "!room4", "!room5", "!room6">>
RoomIdStr(room) == IF room \in DOMAIN RoomNames THEN RoomNames[room] ELSE None

\* handle_revoke_event: data["msg_id"] when it is a string, else event.id
revoke_msg_id(e) == IF e.data \in MsgIds THEN e.data ELSE e.id

\* the bridge state the inbound handlers read and write
BridgeState ==
    [portals_by_key |-> portals_by_key, portals_by_mxid |-> portals_by_mxid,
     puppets_by_uin |-> puppets_by_uin, db_portal |-> db_portal,
     db_puppet |-> db_puppet, db_message |-> db_message,
     create_room_calls |-> create_room_calls,
     sent_messages |-> sent_messages, redactions |-> redactions]

\* WechatBridge::handle_text_event on state b; create_ok and send_ok are the
\* outcomes of the RoomClient calls
handle_text_event(b, e, create_ok, send_ok) ==
    LET key == PortalKeyOf(e)
        got == get_portal_by_key(b.portals_by_key, b.db_portal, key)
        pup == get_puppet_by_uin(b.puppets_by_uin, b.db_puppet, e.from)
        b1 == [b EXCEPT !.portals_by_key = got.cache, !.db_portal = got.db,
                        !.puppets_by_uin = pup.cache, !.db_puppet = pup.db]
    IN IF e.content = None
       THEN [result |-> "ok", state |-> b1]
       ELSE
         LET room == get_matrix_room(got.portal, key, BotMxid,
                                     puppet_mxid(e.from), e.content,
                                     ChatType(e.chat) = "private",
                                     b1.db_portal, b1.create_room_calls,
                                     create_ok)
             b2 == [b1 EXCEPT !.db_portal = room.db,
                              !.create_room_calls = room.rooms]
         IN IF ~room.ok
            THEN [result |-> "err", state |-> b2]
            ELSE
              LET b3 == [b2 EXCEPT !.portals_by_mxid =
                                      MapPut(@, room.room, room.portal)]
              IN IF ~send_ok
                 THEN [result |-> "err", state |-> b3]
                 ELSE
                   LET event_id == Len(b3.sent_messages) + 1
                       b4 == [b3 EXCEPT !.sent_messages =
                                Append(@, [room |-> room.room,
                                           body |-> e.content])]
                       ins == insert_message(b4.db_message,
                                             DbMessageOf(e, event_id))
                   IN [result |-> IF ins.ok THEN "ok" ELSE "err",
                       state |-> [b4 EXCEPT !.db_message = ins.db]]

\* WechatBridge::handle_revoke_event; found is what get_message_by_wechat_id
\* returned for revoke_msg_id(e): redact is called with the row's chat_uid
\* and mxid, and its result is only logged
handle_revoke_event(b, e, found) ==
    IF e.data = None \/ found = NoMessage
    THEN [result |-> "ok", state |-> b]
    ELSE [result |-> "ok",
          state |-> [b EXCEPT !.redactions =
                        Append(@, [room |-> found.chat_uid,
                                   event |-> found.mxid])]]

\* WechatBridge::handle_wechat_event: dispatch on the event type
handle_wechat_event(b, e, create_ok, send_ok, found) ==
    IF e.event_type = "text"
    THEN handle_text_event(b, e, create_ok, send_ok)
    ELSE IF e.event_type = "revoke"
    THEN handle_revoke_event(b, e, found)
    ELSE [result |-> "ok", state |-> b]

----------------------------------------------------------------------------
(* WechatBridge::start and the consumer task *)

\* start(): subscribe to the service's events and spawn the consumer
BridgeStart ==
    /\ event_rx.state = "unstarted"
    /\ event_rx' = [state |-> "running", next |-> event_tx.tail]
    /\ UNCHANGED <<handled, portals_by_key, portals_by_mxid, puppets_by_uin,
                   db_portal, db_puppet, db_message, create_room_calls,
                   sent_messages, redactions>>
    /\ UNCHANGED transportVars
    /\ UNCHANGED broadcastVars
    /\ UNCHANGED <<registryVars, utilVars, matrixVars>>

\* one turn of `while let Ok(event) = event_rx.recv().await`: a value is
\* handled and its result only logged; any Err from recv ends the loop
ConsumerStep ==
    /\ event_rx.state = "running"
    /\ BroadcastRecvKind(event_tx, event_rx.next) # "empty"
    /\ IF BroadcastRecvKind(event_tx, event_rx.next) = "lagged"
       THEN /\ event_rx' = [event_rx EXCEPT !.state = "stopped"]
            /\ UNCHANGED <<handled, portals_by_key, portals_by_mxid,
                           puppets_by_uin, db_portal, db_puppet, db_message,
                           create_room_calls, sent_messages, redactions>>
       ELSE \E create_ok \in BOOLEAN, send_ok \in BOOLEAN,
               found \in FirstOf(get_message_by_wechat_id(db_message,
                           revoke_msg_id(BroadcastValue(event_tx,
                                                        event_rx.next)))) :
              LET e == BroadcastValue(event_tx, event_rx.next)
                  h == handle_wechat_event(BridgeState, e, create_ok, send_ok,
                                           found)
              IN /\ event_rx' = [event_rx EXCEPT !.next = @ + 1]
                 /\ handled' = Append(handled, h.result)
                 /\ portals_by_key' = h.state.portals_by_key
                 /\ portals_by_mxid' = h.state.portals_by_mxid
                 /\ puppets_by_uin' = h.state.puppets_by_uin
                 /\ db_portal' = h.state.db_portal
                 /\ db_puppet' = h.state.db_puppet
                 /\ db_message' = h.state.db_message
                 /\ create_room_calls' = h.state.create_room_calls
                 /\ sent_messages' = h.state.sent_messages
                 /\ redactions' = h.state.redactions
    /\ UNCHANGED transportVars
    /\ UNCHANGED broadcastVars
    /\ UNCHANGED <<registryVars, utilVars, matrixVars>>

----------------------------------------------------------------------------
(* Portal commands of MatrixEventHandler::handle_command; the handler runs  *)
(* on the bridge clone of its transaction, whose caches start empty         *)

\* PortalQuery::get_by_mxid: the keys of the rows whose mxid is the room
db_get_portal_by_mxid(db, room) ==
    {k \in DOMAIN db : db[k].mxid = room}

\* PortalQuery::get_all_with_mxid: the keys of the rows with a room id
get_all_portals_with_mxid(db) ==
    {k \in DOMAIN db : db[k].mxid # 0}

\* BridgePortal::cleanup on a copy of the portal: leave the room, clear the
\* room id in the copy, update_portal
cleanup(db, key, portal) ==
    update_portal(db, key, [portal EXCEPT !.mxid = 0])

\* cleanup of every portal of a set, in any order: the rows have distinct keys
RECURSIVE cleanup_all(_, _)
cleanup_all(db, keys) ==
    IF keys = {} THEN db
    ELSE LET k == CHOOSE x \in keys : TRUE
         IN cleanup_all(cleanup(db, k, db[k]), keys \ {k})

\* the delete-portal command sent in a room: get_portal_by_mxid on the
\* transaction's bridge (cache empty, row from the Store), then cleanup; in a
\* room that is no portal the command only replies
CmdDeletePortal(room) ==
    /\ db_get_portal_by_mxid(db_portal, room) # {}
    /\ \E k \in db_get_portal_by_mxid(db_portal, room) :
          db_portal' = cleanup(db_portal, k, db_portal[k])
    /\ UNCHANGED <<event_rx, handled, portals_by_key, portals_by_mxid,
                   puppets_by_uin, db_puppet, db_message, create_room_calls,
                   sent_messages, redactions>>
    /\ UNCHANGED <<transportVars, broadcastVars, registryVars, utilVars, matrixVars>>

\* the delete-all-portals command: cleanup of every row with a room id
CmdDeleteAllPortals ==
    /\ get_all_portals_with_mxid(db_portal) # {}
    /\ db_portal' = cleanup_all(db_portal, get_all_portals_with_mxid(db_portal))
    /\ UNCHANGED <<event_rx, handled, portals_by_key, portals_by_mxid,
                   puppets_by_uin, db_puppet, db_message, create_room_calls,
                   sent_messages, redactions>>
    /\ UNCHANGED <<transportVars, broadcastVars, registryVars, utilVars, matrixVars>>

----------------------------------------------------------------------------
(* The registry: WechatBridge::get_portal_by_key, one action per await *)

\* the rows of the portal table with this key
RowsOf(tbl, key) ==
    {i \in DOMAIN tbl : tbl[i].uid = key[1] /\ tbl[i].receiver = key[2]}

\* PortalQuery::get_by_key: filter on uid and receiver, first(): the rows
\* it may return, NoRow when no row matches
db_get_portal_by_key(tbl, key) ==
    IF RowsOf(tbl, key) = {} THEN {NoRow}
    ELSE {tbl[i] : i \in RowsOf(tbl, key)}

\* the DbPortal get_portal_by_key builds for a key not in the Store
NewDbPortal(key) == [uid |-> key[1], receiver |-> key[2], mxid |-> 0]

\* mutation of insert_portal: the table has no primary key
insert_portal_unkeyed(tbl, row) == [ok |-> TRUE, tbl |-> Append(tbl, row)]

\* PortalQuery::insert: a plain INSERT into a table whose primary key is
\* (uid, receiver): rejected when a row with the key exists
insert_portal(tbl, row) ==
    IF RowsOf(tbl, <<row.uid, row.receiver>>) # {}
    THEN [ok |-> FALSE, tbl |-> tbl]
    ELSE [ok |-> TRUE, tbl |-> Append(tbl, row)]

\* portals.get(key) under the read lock: a hit returns the cached Arc
RegLookup(t, i, key) ==
    /\ reg_calls[t].pc = "idle"
    /\ \A u \in Tasks : u < t => reg_calls[u].pc # "idle"
    /\ reg_calls' =
         [reg_calls EXCEPT ![t] =
            IF key \in DOMAIN reg_by_key[i]
            THEN [pc |-> "ok", inst |-> i, key |-> key, row |-> NoRow,
                  arc |-> reg_by_key[i][key]]
            ELSE [pc |-> "db_get", inst |-> i, key |-> key, row |-> NoRow,
                  arc |-> 0]]
    /\ UNCHANGED <<reg_by_key, reg_heap, portal_table>>
    /\ UNCHANGED <<transportVars, broadcastVars, inboundVars, matrixVars, utilVars>>

\* self.db.get_portal_by_key(key).await?
RegDbGet(t) ==
    /\ reg_calls[t].pc = "db_get"
    /\ \E row \in db_get_portal_by_key(portal_table, reg_calls[t].key) :
          reg_calls' =
            [reg_calls EXCEPT ![t].pc = IF row = NoRow THEN "db_insert"
                                        ELSE "cache",
                              ![t].row = row]
    /\ UNCHANGED <<reg_by_key, reg_heap, portal_table>>
    /\ UNCHANGED <<transportVars, broadcastVars, inboundVars, matrixVars, utilVars>>

\* self.db.insert_portal(&new_portal).await?: an error ends the call
RegDbInsert(t) ==
    /\ reg_calls[t].pc = "db_insert"
    /\ LET ins == insert_portal(portal_table, NewDbPortal(reg_calls[t].key))
       IN /\ portal_table' = ins.tbl
          /\ reg_calls' =
               [reg_calls EXCEPT ![t].pc = IF ins.ok THEN "cache" ELSE "err",
                                 ![t].row = IF ins.ok
                                            THEN NewDbPortal(reg_calls[t].key)
                                            ELSE NoRow]
    /\ UNCHANGED <<reg_by_key, reg_heap>>
    /\ UNCHANGED <<transportVars, broadcastVars, inboundVars, matrixVars, utilVars>>

\* Arc::new(portal); portals.insert(key, portal.clone()) under the write
\* lock, replacing whatever another call cached meanwhile; Ok(portal)
RegCacheInsert(t) ==
    /\ reg_calls[t].pc = "cache"
    /\ reg_heap' = Append(reg_heap, reg_calls[t].row)
    /\ reg_by_key' =
         [reg_by_key EXCEPT ![reg_calls[t].inst] =
            MapPut(@, reg_calls[t].key, Len(reg_heap) + 1)]
    /\ reg_calls' = [reg_calls EXCEPT ![t].pc = "ok",
                                      ![t].arc = Len(reg_heap) + 1]
    /\ UNCHANGED portal_table
    /\ UNCHANGED <<transportVars, broadcastVars, inboundVars, matrixVars, utilVars>>

----------------------------------------------------------------------------
(* MatrixEventHandler: the events of a transaction, each handled on the     *)
(* bridge clone handle_transaction makes                                    *)

\* the account that sends events
Mxids == {"@a"}

\* what BridgeUser::login finds: the agent reports the account logged in,
\* reports it waiting for the QR scan, or a request to the agent fails
LoginOutcomes == {"logged", "waiting", "err"}

\* DbUser::new: a row without uin
NewUser == [uin |-> None]

\* BridgeUser::from_db: the row, and no client
from_db(row) == [uin |-> row.uin, client |-> FALSE]

\* WechatBridge::get_user_by_mxid: the cached user, else the Store's row
\* (inserted when missing) wrapped by from_db and put into the cache
get_user_by_mxid(cache, db, mxid) ==
    IF mxid \in DOMAIN cache
    THEN [user |-> cache[mxid], cache |-> cache, db |-> db]
    ELSE IF mxid \in DOMAIN db
    THEN [user |-> from_db(db[mxid]),
          cache |-> MapPut(cache, mxid, from_db(db[mxid])), db |-> db]
    ELSE [user |-> from_db(NewUser),
          cache |-> MapPut(cache, mxid, from_db(NewUser)),
          db |-> MapPut(db, mxid, NewUser)]

\* Database::update_user: UPDATE ... WHERE mxid = ..
update_user(db, mxid, user) ==
    IF mxid \in DOMAIN db THEN [db EXCEPT ![mxid] = [uin |-> user.uin]]
    ELSE db

\* BridgeUser::is_logged_in
is_logged_in(user) == user.uin # None /\ user.client

\* BridgeUser::login on the handler's copy of the user, after set_client
login(user, outcome) ==
    IF outcome = "err" THEN [ok |-> FALSE, user |-> user, stored |-> FALSE]
    ELSE IF outcome = "logged"
    THEN [ok |-> TRUE, user |-> [uin |-> "U1", client |-> TRUE],
          stored |-> TRUE]
    ELSE [ok |-> TRUE, user |-> [user EXCEPT !.client = TRUE],
          stored |-> FALSE]

\* BridgeUser::logout on the handler's copy of the user
logout(user) == [uin |-> None, client |-> FALSE]

\* what a send call to the agent returns: None for Err, else the msg_id
SendReplies == MsgIds \cup {None}

\* the event ids an m.in_reply_to may name: none (0), an id the RoomClient
\* returned for a bridged message, an id of the chat network's own
ReplyRefs == {0, 1, FirstMxEventId}

\* MatrixEventHandler::get_reply_target: the msg_id of the record of the
\* event replied to, None without m.in_reply_to or without a record
get_reply_target(db, in_reply_to) ==
    IF in_reply_to = 0 THEN {None}
    ELSE {m.msg_id : m \in FirstOf(get_message_by_mxid(db, in_reply_to))}

\* MatrixEventHandler::handle_text_message: without a client nothing is
\* sent; with one, send_text_message is called with the reply target and
\* its result, reply, is only logged
handle_text_message(user, key, reply, reply_to, requests, db) ==
    IF ~user.client
    THEN [result |-> "no_client", requests |-> requests, db |-> db]
    ELSE [result |-> IF reply = None THEN "send_failed" ELSE "sent",
          requests |-> Append(requests,
                              [kind |-> "send_text", chat |-> key[1],
                               msg_id |-> reply, reply_to |-> reply_to]),
          db |-> db]

\* handle_image_message, and handle_video_message, handle_audio_message,
\* handle_file_message and handle_sticker_message, which differ only in the
\* send call: client, url and download, send, and on Ok(msg_id) a Message
\* row for the event id (0 is None) through insert_message; the sticker
\* handler passes no reply target
handle_media_message(kind, user, key, event_id, media_ok, reply, reply_to, requests, db) ==
    IF ~user.client
    THEN [result |-> "no_client", requests |-> requests, db |-> db]
    ELSE IF ~media_ok
    THEN [result |-> "no_media", requests |-> requests, db |-> db]
    ELSE
      LET sent == Append(requests,
                         [kind |-> "send_media", chat |-> key[1],
                          msg_id |-> reply,
                          reply_to |-> IF kind = "m.sticker" THEN None
                                       ELSE reply_to])
          ins == insert_message(db, [chat_uid |-> key[1],
                                     chat_receiver |-> key[2],
                                     msg_id |-> reply, mxid |-> event_id])
      IN IF reply = None
         THEN [result |-> "send_failed", requests |-> sent, db |-> db]
         ELSE IF event_id = 0
         THEN [result |-> "sent", requests |-> sent, db |-> db]
         ELSE [result |-> IF ins.ok THEN "sent" ELSE "err",
               requests |-> sent, db |-> ins.db]

\* the msgtype values handle_message_event dispatches on
TextKinds == {"m.text", "m.notice", "m.emote"}
MediaKinds == {"m.image", "m.video", "m.audio", "m.file", "m.sticker"}

\* an entry of mx_log
MxEntry(kind, a, room, result) ==
    [kind |-> kind, sender |-> a, room |-> room, result |-> result,
     event |-> 0, ext |-> None, reply |-> 0]

\* handle_transaction: a new clone of the bridge, whose users_by_mxid is empty
TxnBegin ==
    /\ txn_users # <<>>
    /\ txn_users' = <<>>
    /\ UNCHANGED <<db_user, session, agent_requests, mx_log>>
    /\ UNCHANGED <<transportVars, broadcastVars, inboundVars, registryVars, utilVars>>

\* the login command of account a: the registry's user is copied, the copy
\* gets the client and logs in, and the copy is dropped
MxLogin(a, outcome) ==
    /\ Len(mx_log) < MaxMxEvents
    /\ LET got == get_user_by_mxid(txn_users, db_user, a)
           done == login([got.user EXCEPT !.client = TRUE], outcome)
       IN /\ txn_users' = got.cache
          /\ IF is_logged_in(got.user)
             THEN /\ db_user' = got.db
                  /\ session' = session
                  /\ mx_log' = Append(mx_log, MxEntry("login", a, 0,
                                                       "already"))
             ELSE /\ db_user' = IF done.stored
                                THEN update_user(got.db, a, done.user)
                                ELSE got.db
                  /\ session' = IF outcome = "logged"
                                THEN session \cup {a} ELSE session
                  /\ mx_log' = Append(mx_log, MxEntry("login", a, 0, outcome))
    /\ UNCHANGED agent_requests
    /\ UNCHANGED <<transportVars, broadcastVars, inboundVars, registryVars, utilVars>>

\* the logout command of account a, on a copy of the registry's user
MxLogout(a) ==
    /\ Len(mx_log) < MaxMxEvents
    /\ LET got == get_user_by_mxid(txn_users, db_user, a)
       IN /\ txn_users' = got.cache
          /\ db_user' = update_user(got.db, a, logout(got.user))
    /\ session' = session \ {a}
    /\ mx_log' = Append(mx_log, MxEntry("logout", a, 0, "ok"))
    /\ UNCHANGED agent_requests
    /\ UNCHANGED <<transportVars, broadcastVars, inboundVars, registryVars, utilVars>>

\* handle_message_event for a text, notice or emote body that is no command:
\* the room's portal from the Store, the sender's user from the registry
MxText(a, room, in_reply_to) ==
    /\ Len(mx_log) < MaxMxEvents
    /\ IF db_get_portal_by_mxid(db_portal, room) = {}
       THEN /\ mx_log' = Append(mx_log,
                   [MxEntry("text", a, room, "no_portal") EXCEPT
                       !.reply = in_reply_to])
            /\ UNCHANGED <<db_user, txn_users, agent_requests>>
       ELSE \E key \in db_get_portal_by_mxid(db_portal, room),
               reply \in SendReplies,
               reply_to \in get_reply_target(db_message, in_reply_to) :
              LET got == get_user_by_mxid(txn_users, db_user, a)
                  h == handle_text_message(got.user, key, reply, reply_to,
                                           agent_requests, db_message)
              IN /\ txn_users' = got.cache
                 /\ db_user' = got.db
                 /\ agent_requests' = h.requests
                 /\ mx_log' = Append(mx_log,
                       [MxEntry("text", a, room, h.result) EXCEPT
                           !.reply = in_reply_to])
    /\ UNCHANGED session
    /\ UNCHANGED <<transportVars, broadcastVars, inboundVars, registryVars, utilVars>>

\* the dispatch of handle_message_event on msgtype, given the user and the
\* portal: the text handler or a media handler; the event carries a new
\* event id or none, media_ok says the url is there and the download worked
MxMessage(kind, has_client, key, has_event_id, media_ok, reply, in_reply_to) ==
    /\ Len(mx_log) < MaxForwards
    /\ \E reply_to \in get_reply_target(db_message, in_reply_to) :
         LET user == [uin |-> "U1", client |-> has_client]
             event_id == IF has_event_id THEN FirstMxEventId + Len(mx_log)
                         ELSE 0
             h == IF kind \in TextKinds
                  THEN handle_text_message(user, key, reply, reply_to,
                                           agent_requests, db_message)
                  ELSE handle_media_message(kind, user, key, event_id,
                                            media_ok, reply, reply_to,
                                            agent_requests, db_message)
         IN /\ agent_requests' = h.requests
            /\ db_message' = h.db
            /\ mx_log' = Append(mx_log,
                   [MxEntry(kind, "@a", 0, h.result) EXCEPT
                       !.event = event_id,
                       !.ext = IF h.requests # agent_requests THEN reply
                               ELSE None,
                       !.reply = in_reply_to])
    /\ UNCHANGED <<db_user, txn_users, session>>
    /\ UNCHANGED <<event_rx, handled, portals_by_key, portals_by_mxid,
                   puppets_by_uin, db_portal, db_puppet, create_room_calls,
                   sent_messages, redactions>>
    /\ UNCHANGED <<transportVars, broadcastVars, registryVars, utilVars>>

\* the event ids a redaction may name: none (0), ids the RoomClient returned
\* for bridged messages, and an id of the chat network's own
RedactionTargets == (0..MaxEvents) \cup {FirstMxEventId}

\* MatrixEventHandler::handle_redaction_event: without room id, redacts field
\* or portal nothing happens; else the record of the redacted event id is
\* looked up and, when there is one, revoke_message is called for its msg_id
\* on the portal's chat, the result of the call being only logged
MxRedaction(a, room, target) ==
    /\ Len(mx_log) < MaxForwards
    /\ IF room = 0 \/ target = 0
          \/ db_get_portal_by_mxid(db_portal, room) = {}
       THEN /\ mx_log' = Append(mx_log,
                   [MxEntry("redaction", a, room, "ok") EXCEPT
                       !.event = target])
            /\ UNCHANGED agent_requests
       ELSE \E key \in db_get_portal_by_mxid(db_portal, room),
               msg \in FirstOf(get_message_by_mxid(db_message, target)) :
              /\ agent_requests' =
                   IF msg = NoMessage THEN agent_requests
                   ELSE Append(agent_requests,
                               [kind |-> "revoke", chat |-> key[1],
                                msg_id |-> msg.msg_id, reply_to |-> None])
              /\ mx_log' = Append(mx_log,
                     [MxEntry("redaction", a, room, "ok") EXCEPT
                         !.event = target, !.ext = msg.msg_id])
    /\ UNCHANGED <<db_user, txn_users, session>>
    /\ UNCHANGED <<transportVars, broadcastVars, inboundVars, registryVars, utilVars>>

----------------------------------------------------------------------------
(* Transactions: handle_transaction, handle_event and its two filters *)

\* events in one transaction, and transactions in a run
MaxTxnEvents == 2
MaxTxns == 1

\* the senders of the events of a transaction: a user's account, the bot,
\* a puppet
TxnSenders == Mxids \cup {BotMxid} \cup PuppetMxids

\* is_puppet_mxid: the account starts with "@" and the puppet prefix
is_puppet_mxid(mxid) == mxid \in PuppetMxids

\* is_own_event: the sender is the bot or a puppet
is_own_event(ev) == ev.sender = BotMxid \/ is_puppet_mxid(ev.sender)

\* origin_server_ts is an i64 of milliseconds, cast to u64 for the event
\* time; the 64 bits are scaled down to TsBits, the five minutes to
\* EventAgeLimit, and Now is what SystemTime::now() reads
TsBits == 6
TsModulus == 2 ^ TsBits
Timestamps == (0 - 2 ^ (TsBits - 1))..(2 ^ (TsBits - 1) - 1)
NoTs == TsModulus
Now == 20
EventAgeLimit == 5
as_u64(ts) == ts % TsModulus

\* is_event_too_old: an event without timestamp is not old; duration_since
\* fails for an event time after now, and the event is then not old
is_event_too_old(ev) ==
    IF ev.ts = NoTs THEN FALSE
    ELSE LET event_time == as_u64(ev.ts)
         IN IF event_time <= Now
            THEN Now - event_time > EventAgeLimit
            ELSE FALSE

\* a message body is the list of its runs of whitespace and of other
\* characters; command_prefix is one run
CommandPrefix == "!wechat"
Space == " "
Bodies == {<<>>, <<"hello">>, <<CommandPrefix>>,
           <<CommandPrefix, Space, "ping">>,
           <<Space, CommandPrefix, Space, "ping">>}

\* a prefix test that no body passes
starts_with_nothing(body, prefix) == FALSE
\* str::starts_with, for a prefix of one run
starts_with(body, prefix) == Len(body) > 0 /\ body[1] = prefix

\* str::trim and str::split_whitespace
trim_start(body) ==
    IF Len(body) > 0 /\ body[1] = Space THEN Tail(body) ELSE body
split_whitespace(body) == SelectSeq(body, LAMBDA w : w # Space)

\* CommandProcessor::parse_command: the command word, or none
NoCommand == None
parse_command(text) ==
    IF ~starts_with(trim_start(text), CommandPrefix) THEN NoCommand
    ELSE LET parts == split_whitespace(Tail(trim_start(text)))
         IN IF parts = <<>> THEN NoCommand ELSE parts[1]

\* CommandProcessor::process, for the commands that only reply
process(command) ==
    IF command = "ping" THEN "Pong!" ELSE "Unknown command"

\* the events of a transaction: type, sender, origin_server_ts, room, body
\* and, for a redaction, the event redacted
MxEvent(type, sender, ts, room, body, redacts) ==
    [type |-> type, sender |-> sender, ts |-> ts, room |-> room,
     body |-> body, redacts |-> redacts]

\* a fresh text message of an account in the first portal's room and what
\* differs from it in the sender, the timestamp, the room or the body; the
\* same for a redaction; an event of a type handle_event has no handler for
TxnEvents ==
    {MxEvent("m.room.message", s, Now, 1, <<"hello">>, 0) : s \in TxnSenders}
    \cup {MxEvent("m.room.message", "@a", ts, 1, <<"hello">>, 0) :
            ts \in {Now - EventAgeLimit - 1, 0 - 1, NoTs}}
    \cup {MxEvent("m.room.message", "@a", Now, 2, <<"hello">>, 0)}
    \cup {MxEvent("m.room.message", "@a", Now, 1, b, 0) :
            b \in Bodies \ {<<"hello">>}}
    \cup {MxEvent("m.room.message", s, Now, 2,
                  <<CommandPrefix, Space, "ping">>, 0) :
            s \in {"@a", BotMxid}}
    \cup {MxEvent("m.room.redaction", s, Now, 1, <<>>, 1) : s \in TxnSenders}
    \cup {MxEvent("m.room.redaction", "@a", ts, 1, <<>>, 1) :
            ts \in {Now - EventAgeLimit - 1, 0 - 1}}
    \cup {MxEvent("m.other", "@a", Now, 1, <<>>, 0)}

Transactions ==
    UNION {[1..n -> TxnEvents] : n \in 1..MaxTxnEvents}

\* handle_transaction is called: a new clone of the bridge, whose
\* users_by_mxid is empty, handles the events
TxnReceive(events) ==
    /\ txn.events = <<>>
    /\ txn.returned < MaxTxns
    /\ txn' = [txn EXCEPT !.events = events, !.pos = 1, !.results = <<>>]
    /\ txn_users' = <<>>
    /\ UNCHANGED <<db_user, session, agent_requests, mx_log>>
    /\ UNCHANGED <<transportVars, broadcastVars, inboundVars, registryVars, utilVars>>

\* an event that handle_event or handle_message_event returns Ok for
\* before any handler has run
MxDropped(ev, why) ==
    /\ mx_log' = Append(mx_log, MxEntry(why, ev.sender, ev.room, "ok"))
    /\ UNCHANGED <<db_user, txn_users, session, agent_requests>>
    /\ UNCHANGED <<transportVars, broadcastVars, inboundVars, registryVars, utilVars>>

\* handle_command for a command that only replies: the reply is sent to the
\* room as a notice, and the handler fails when the notice does
MxCommand(ev, notice_ok) ==
    /\ LET cmd == parse_command(ev.body)
       IN IF cmd = NoCommand
          THEN /\ mx_log' = Append(mx_log, MxEntry("command", ev.sender,
                                                   ev.room, "ok"))
               /\ UNCHANGED sent_messages
          ELSE IF notice_ok
          THEN /\ sent_messages' = Append(sent_messages,
                                          [room |-> ev.room,
                                           body |-> process(cmd)])
               /\ mx_log' = Append(mx_log, MxEntry("command", ev.sender,
                                                   ev.room, "ok"))
          ELSE /\ mx_log' = Append(mx_log, MxEntry("command", ev.sender,
                                                   ev.room, "err"))
               /\ UNCHANGED sent_messages
    /\ UNCHANGED <<event_rx, handled, portals_by_key, portals_by_mxid,
                   puppets_by_uin, db_portal, db_puppet, db_message,
                   create_room_calls, redactions>>
    /\ UNCHANGED <<db_user, txn_users, session, agent_requests>>
    /\ UNCHANGED <<transportVars, broadcastVars, registryVars, utilVars>>

\* handle_message_event: an empty body is skipped, a body with the command
\* prefix goes to handle_command, any other to the message handlers
handle_message_event(ev, notice_ok) ==
    IF ev.body = <<>> THEN MxDropped(ev, "empty")
    ELSE IF starts_with(ev.body, CommandPrefix) THEN MxCommand(ev, notice_ok)
    ELSE MxText(ev.sender, ev.room, 0)

\* handle_event: the two filters, then the handler of the event's type
handle_event(ev, notice_ok) ==
    IF is_event_too_old(ev) THEN MxDropped(ev, "too_old")
    ELSE IF is_own_event(ev) THEN MxDropped(ev, "own")
    ELSE IF ev.type = "m.room.message"
    THEN handle_message_event(ev, notice_ok)
    ELSE IF ev.type = "m.room.redaction"
    THEN MxRedaction(ev.sender, ev.room, ev.redacts)
    ELSE MxDropped(ev, "unhandled")

\* what handle_event returned, from the log entry of the event
returned_by(entry) == IF entry.result = "err" THEN "err" ELSE "ok"

\* a loop that returns the first error: the position after the last event
after_event_propagating(pos, len, result) ==
    IF result = "err" THEN len + 1 ELSE pos + 1
\* the loop of handle_transaction after an event: an Err is logged, and the
\* loop goes on to the next event either way
after_event(pos, len, result) == pos + 1

\* one turn of the loop of handle_transaction: the next event is handled
TxnHandle ==
    /\ txn.pos <= Len(txn.events)
    /\ \E notice_ok \in BOOLEAN : handle_event(txn.events[txn.pos], notice_ok)
    /\ txn' = [txn EXCEPT
                 !.pos = after_event(@, Len(txn.events),
                                     returned_by(mx_log'[Len(mx_log')])),
                 !.results = Append(@, returned_by(mx_log'[Len(mx_log')]))]

\* handle_transaction returns Ok(()) when the loop is over
TxnReturn ==
    /\ txn.events # <<>>
    /\ txn.pos > Len(txn.events)
    /\ txn' = [txn EXCEPT !.events = <<>>, !.returned = @ + 1]
    /\ UNCHANGED <<db_user, txn_users, session, agent_requests, mx_log>>
    /\ UNCHANGED <<transportVars, broadcastVars, inboundVars, registryVars, utilVars>>

----------------------------------------------------------------------------
(* Puppets: BridgePuppet::sync and BridgePuppet::set_displayname *)

\* updates made to the puppet in a run
MaxPuppetUpdates == 3

\* NAME_QUALITY_NAME and NAME_QUALITY_UIN
NAME_QUALITY_NAME == 2
NAME_QUALITY_UIN == 1

\* the names an update carries: the contact's names, or the name made of
\* its id
RealNames == {"Alice", "Bob"}
IdNames == {"u1"}
Names == RealNames \cup IdNames

\* format_displayname's quality for a name: that of a real name when the
\* contact has a name, that of the id otherwise
quality_of(name) ==
    IF name \in RealNames THEN NAME_QUALITY_NAME ELSE NAME_QUALITY_UIN

\* BridgePuppet::sync for the name: name is None or a name, set_ok says the
\* RoomClient set the ghost's displayname; the row is updated at the end
sync(p, name, force, set_ok) ==
    LET quality == NAME_QUALITY_NAME
        wanted == /\ name # None
                  /\ \/ force
                     \/ ~p.inner.name_set
                     \/ p.inner.name_quality < quality
        inner == IF wanted /\ set_ok
                 THEN [displayname |-> name, name_quality |-> quality,
                       name_set |-> TRUE]
                 ELSE p.inner
    IN [p EXCEPT !.inner = inner, !.row = inner,
                 !.ghost = IF wanted /\ set_ok THEN name ELSE @]

\* BridgePuppet::set_displayname
set_displayname(p, name, quality) ==
    LET inner == [displayname |-> name, name_quality |-> quality,
                  name_set |-> TRUE]
    IN [p EXCEPT !.inner = inner, !.row = inner]

UnchangedButPuppet ==
    UNCHANGED <<transportVars, broadcastVars, inboundVars, registryVars,
                matrixVars, backoff, perf_cache,
                perfVars, retryVars, main_proc>>

PuppetSync(name, force, set_ok) ==
    /\ Len(puppet.log) < MaxPuppetUpdates
    /\ puppet' = [sync(puppet, name, force, set_ok) EXCEPT
                    !.log = Append(@, [op |-> "sync", name |-> name,
                                       force |-> force])]
    /\ UnchangedButPuppet

PuppetSetDisplayname(name) ==
    /\ Len(puppet.log) < MaxPuppetUpdates
    /\ puppet' = [set_displayname(puppet, name, quality_of(name)) EXCEPT
                    !.log = Append(@, [op |-> "set_displayname",
                                       name |-> name, force |-> FALSE])]
    /\ UnchangedButPuppet

----------------------------------------------------------------------------
(* Backoff: ExponentialBackoff, LinearBackoff, FixedBackoff, ImmediateBackoff *)

\* the largest max_retries, and the calls made on a backoff in a run
MaxRetries == 2
MaxBackoffCalls == 4

\* BackoffStrategy
Strategies == {"Exponential", "Linear", "Fixed", "Immediate"}

\* BackoffConfig: delays are whole numbers of a time unit; the multiplier is
\* given in halves (1 is 0.5, 4 is 2.0)
MultiplierUnit == 2
BackoffConfigs ==
    [initial_delay : {16, 48}, max_delay : {40}, multiplier : {1, 4},
     max_retries : 0..MaxRetries, jitter : BOOLEAN]

\* the delays a backoff of these configurations can return
Delays == 0..48

\* next_delay returned None
NoDelay == 0 - 1

\* rand_factor() * 2.0 - 1.0, at the ends and in the middle of its range
JitterFactors == {0 - 1, 0, 1}
JitterDivisor == 10

Min(a, b) == IF a <= b THEN a ELSE b
Max(a, b) == IF a >= b THEN a ELSE b

\* ExponentialBackoff::add_jitter
add_jitter(delay, factor) ==
    Max(delay + (delay \div JitterDivisor) * factor, 0)

\* BackoffStrategy::create_backoff
create_backoff(strategy, config) ==
    [strategy |-> strategy, initial_delay |-> config.initial_delay,
     max_delay |-> config.max_delay, multiplier |-> config.multiplier,
     max_retries |-> config.max_retries, jitter |-> config.jitter,
     current_delay |-> config.initial_delay, retry_count |-> 0,
     log |-> <<>>]

\* Backoff::is_exhausted
is_exhausted(b) == b.retry_count >= b.max_retries

\* the delay a call returns, and current_delay after it, by strategy
delay_of(b) ==
    IF b.strategy \in {"Exponential", "Linear"} THEN b.current_delay
    ELSE IF b.strategy = "Fixed" THEN b.initial_delay
    ELSE 0
next_current(b, factor) ==
    IF b.strategy = "Exponential"
    THEN LET next == Min((b.current_delay * b.multiplier) \div MultiplierUnit,
                         b.max_delay)
         IN IF b.jitter THEN add_jitter(next, factor) ELSE next
    ELSE IF b.strategy = "Linear"
    THEN Min(b.current_delay + b.initial_delay, b.max_delay)
    ELSE b.current_delay

\* Backoff::next_delay: what it returns and the backoff after the call
next_delay(b, factor) ==
    IF b.retry_count >= b.max_retries
    THEN [delay |-> NoDelay, state |-> b]
    ELSE [delay |-> delay_of(b),
          state |-> [b EXCEPT !.retry_count = @ + 1,
                              !.current_delay = next_current(b, factor)]]

\* a reset that leaves the backoff as it is
reset_nothing(b) == b
\* Backoff::reset
reset(b) ==
    [b EXCEPT !.retry_count = 0,
              !.current_delay = IF b.strategy \in {"Exponential", "Linear"}
                                THEN b.initial_delay ELSE @]

UnchangedButBackoff ==
    UNCHANGED <<transportVars, broadcastVars, inboundVars, registryVars,
                matrixVars, puppet, perf_cache,
                perfVars, retryVars, main_proc>>

BackoffNew(strategy, config) ==
    /\ backoff = NoBackoff
    /\ backoff' = create_backoff(strategy, config)
    /\ UnchangedButBackoff

BackoffNextDelay(factor) ==
    /\ backoff.strategy # None
    /\ Len(backoff.log) < MaxBackoffCalls
    /\ LET r == next_delay(backoff, factor)
       IN backoff' = [r.state EXCEPT
                        !.log = Append(@, [op |-> "next_delay",
                                           delay |-> r.delay])]
    /\ UnchangedButBackoff

BackoffReset ==
    /\ backoff.strategy # None
    /\ Len(backoff.log) < MaxBackoffCalls
    /\ backoff' = [reset(backoff) EXCEPT
                     !.log = Append(@, [op |-> "reset", delay |-> NoDelay])]
    /\ UnchangedButBackoff

----------------------------------------------------------------------------
(* Cache: insert, get and remove under the cache's RwLock *)

\* the largest max_size, the concurrent callers, the calls made in a run
MaxCacheSize == 2
MaxCacheCallers == 2
MaxCacheCalls == 4

CacheKeys == {"k1", "k2", "k3"}
CacheValues == {"v1", "v2"}
CacheCallers == 1..MaxCacheCallers

\* the calls a caller can make
CacheOps ==
    [op : {"insert"}, key : CacheKeys, value : CacheValues]
    \cup [op : {"get", "remove"}, key : CacheKeys, value : {None}]

\* CacheEntry::new without ttl
NewCacheEntry(value, now) == [value |-> value, created_at |-> now, hits |-> 0]

\* the map without a key
MapRemove(m, k) == [x \in (DOMAIN m) \ {k} |-> m[x]]

\* the keys min_by_key(created_at) can return: HashMap iteration order
\* decides between entries made at the same instant
OldestKeys(inner) ==
    {k \in DOMAIN inner :
        \A j \in DOMAIN inner : inner[k].created_at <= inner[j].created_at}

\* an eviction that removes nothing
evict_nothing(inner) == {inner}
\* Cache::evict_oldest: the maps it can leave
evict_oldest(inner) ==
    IF inner = <<>> THEN {inner}
    ELSE {MapRemove(inner, k) : k \in OldestKeys(inner)}

\* Cache::insert_with_ttl without ttl: the maps it can leave
insert_with_ttl(inner, max_size, key, value, now) ==
    LET room == IF Cardinality(DOMAIN inner) >= max_size
                   /\ key \notin DOMAIN inner
                THEN evict_oldest(inner)
                ELSE {inner}
    IN {MapPut(m, key, NewCacheEntry(value, now)) : m \in room}

\* Cache::get: an entry without ttl never expires; a hit is counted
cache_get(inner, key) ==
    IF key \in DOMAIN inner
    THEN [inner EXCEPT ![key].hits = @ + 1]
    ELSE inner

\* Cache::remove
cache_remove(inner, key) == MapRemove(inner, key)

UnchangedButCache ==
    UNCHANGED <<transportVars, broadcastVars, inboundVars, registryVars,
                matrixVars, puppet, backoff,
                perfVars, retryVars, main_proc>>

\* Cache::new(max_size)
CacheNew(max_size) ==
    /\ perf_cache = NoCache
    /\ perf_cache' = [NoCache EXCEPT
                        !.max_size = max_size,
                        !.pending = [c \in CacheCallers |-> <<>>]]
    /\ UnchangedButCache

\* a caller calls insert, get or remove and waits for the write lock
CacheCall(c, call) ==
    /\ perf_cache.max_size > 0
    /\ perf_cache.pending[c] = <<>>
    /\ perf_cache.done
         + Cardinality({d \in CacheCallers : perf_cache.pending[d] # <<>>})
         < MaxCacheCalls
    /\ perf_cache' = [perf_cache EXCEPT !.pending[c] = <<call>>]
    /\ UnchangedButCache

\* the caller gets the lock and its call runs to the end; tick is the time
\* that passed since the call before
CacheRun(c, tick) ==
    /\ perf_cache.max_size > 0
    /\ perf_cache.pending[c] # <<>>
    /\ LET call == perf_cache.pending[c][1]
           now == perf_cache.now + tick
       IN \E inner \in
             IF call.op = "insert"
             THEN insert_with_ttl(perf_cache.inner, perf_cache.max_size,
                                  call.key, call.value, now)
             ELSE IF call.op = "get"
             THEN {cache_get(perf_cache.inner, call.key)}
             ELSE {cache_remove(perf_cache.inner, call.key)} :
            perf_cache' = [perf_cache EXCEPT
                             !.inner = inner,
                             !.now = now,
                             !.pending[c] = <<>>,
                             !.done = @ + 1,
                             !.evicted =
                                IF DOMAIN perf_cache.inner \subseteq
                                      DOMAIN inner
                                   \/ call.op # "insert"
                                THEN @ ELSE @ + 1,
                             !.replaced =
                                IF call.op = "insert"
                                   /\ call.key \in DOMAIN perf_cache.inner
                                THEN @ + 1 ELSE @]
    /\ UnchangedButCache

----------------------------------------------------------------------------
(* MessageQueue: push, push_front, pop and wait_for_message *)

\* the largest capacity, the concurrent callers of push, push_front and
\* pop, the concurrent callers of wait_for_message, the calls made in a run
MaxQueueCapacity == 2
MaxQueueCallers == 2
MaxQueueConsumers == 2
MaxQueueCalls == 4

QueueCallers == 1..MaxQueueCallers
QueueConsumers == 1..MaxQueueConsumers
QueueOps == {"push", "push_front", "pop"}

\* queue.len() >= self.capacity never true
is_full_never(queue, capacity) == FALSE
\* queue.len() >= self.capacity
is_full(queue, capacity) == Len(queue) >= capacity

\* VecDeque::pop_back in the place of pop_front
pop_back(queue) ==
    IF queue = <<>> THEN [msg |-> NoQueueMessage, rest |-> queue]
    ELSE [msg |-> queue[Len(queue)], rest |-> SubSeq(queue, 1, Len(queue) - 1)]
\* VecDeque::pop_front: the message returned and the queue it leaves
pop_front(queue) ==
    IF queue = <<>> THEN [msg |-> NoQueueMessage, rest |-> queue]
    ELSE [msg |-> Head(queue), rest |-> Tail(queue)]

\* Notify::notify_one: the first waiter is woken and goes back to the top
\* of its loop; with no waiter one permit is stored, and a permit that is
\* stored already stays the only one
notify_one(q) ==
    IF q.waiters # <<>>
    THEN [q EXCEPT !.waiters = Tail(@), !.pc[Head(q.waiters)] = "lock"]
    ELSE [q EXCEPT !.permit = TRUE]

\* MessageQueue::push and push_front, from the lock to the return
queue_push(q, at_front) ==
    IF is_full(q.queue, q.capacity)
    THEN [q EXCEPT !.last_full = TRUE]
    ELSE LET id == q.next_id
             pushed == [q EXCEPT
                          !.queue = IF at_front THEN <<id>> \o @
                                    ELSE Append(@, id),
                          !.next_id = @ + 1,
                          !.front = IF at_front THEN @ \cup {id} ELSE @,
                          !.last_full = FALSE]
         IN notify_one(pushed)

\* MessageQueue::pop, from the lock to the return
queue_pop(q) ==
    LET r == pop_front(q.queue)
    IN [q EXCEPT !.queue = r.rest,
                 !.last_msg = r.msg,
                 !.last_full = FALSE,
                 !.returned = IF r.msg = NoQueueMessage THEN @
                              ELSE @ \cup {r.msg}]

UnchangedButQueue ==
    UNCHANGED <<transportVars, broadcastVars, inboundVars, registryVars,
                matrixVars, puppet, backoff, perf_cache, pqueue, retryVars,
                main_proc>>

\* MessageQueue::new(capacity, max_concurrency)
QueueNew(capacity) ==
    /\ mqueue = NoMessageQueue
    /\ mqueue' = [NoMessageQueue EXCEPT
                    !.capacity = capacity,
                    !.pending = [c \in QueueCallers |-> <<>>],
                    !.pc = [c \in QueueConsumers |-> "idle"],
                    !.got = [c \in QueueConsumers |-> NoQueueMessage]]
    /\ UnchangedButQueue

\* a caller calls push, push_front or pop and waits for the lock
QueueCall(c, op) ==
    /\ mqueue.capacity > 0
    /\ mqueue.pending[c] = <<>>
    /\ mqueue.done
         + Cardinality({d \in QueueCallers : mqueue.pending[d] # <<>>})
         < MaxQueueCalls
    /\ mqueue' = [mqueue EXCEPT !.pending[c] = <<op>>]
    /\ UnchangedButQueue

\* the caller gets the lock and its call runs to the end
QueueRun(c) ==
    /\ mqueue.capacity > 0
    /\ mqueue.pending[c] # <<>>
    /\ LET op == mqueue.pending[c][1]
           after == IF op = "pop" THEN queue_pop(mqueue)
                    ELSE queue_push(mqueue, op = "push_front")
       IN mqueue' = [after EXCEPT !.pending[c] = <<>>,
                                  !.done = @ + 1,
                                  !.last_op = op]
    /\ UnchangedButQueue

\* wait_for_message is called: the consumer waits for the lock
QueueWaitCall(c) ==
    /\ mqueue.capacity > 0
    /\ mqueue.pc[c] = "idle"
    /\ mqueue' = [mqueue EXCEPT !.pc[c] = "lock"]
    /\ UnchangedButQueue

\* under the lock: a message is popped and returned, or the queue is empty
\* and the lock is released
QueueWaitCheck(c) ==
    /\ mqueue.capacity > 0
    /\ mqueue.pc[c] = "lock"
    /\ LET r == pop_front(mqueue.queue)
       IN mqueue' =
            IF r.msg = NoQueueMessage
            THEN [mqueue EXCEPT !.pc[c] = "unlocked"]
            ELSE [mqueue EXCEPT !.queue = r.rest,
                                !.pc[c] = "returned",
                                !.got[c] = r.msg,
                                !.returned = @ \cup {r.msg}]
    /\ UnchangedButQueue

\* self.notify.notified().await: a stored permit is taken and the loop
\* goes round, or the consumer becomes a waiter of the Notify
QueueWaitNotified(c) ==
    /\ mqueue.capacity > 0
    /\ mqueue.pc[c] = "unlocked"
    /\ mqueue' =
         IF mqueue.permit
         THEN [mqueue EXCEPT !.permit = FALSE, !.pc[c] = "lock"]
         ELSE [mqueue EXCEPT !.waiters = Append(@, c), !.pc[c] = "waiting"]
    /\ UnchangedButQueue

----------------------------------------------------------------------------
(* PriorityQueue: push and pop, each class of messages under its own lock *)

\* the largest capacity, the concurrent callers, the calls made in a run
MaxPqCapacity == 2
MaxPqCallers == 2
MaxPqCalls == 4

PqCallers == 1..MaxPqCallers

\* QueueMessage.priority (u8) at the ends of the three classes
Priorities == {0, 3, 4, 7, 8, 255}
PqClasses == {"high", "normal", "low"}

\* match message.priority { 8..=255 => high, 4..=7 => normal, _ => low }
class_of(priority) ==
    IF priority >= 8 THEN "high"
    ELSE IF priority >= 4 THEN "normal"
    ELSE "low"

\* high.len() + normal.len() + low.len()
total_len(q) == Len(q.high) + Len(q.normal) + Len(q.low)

\* a call that has not been made, or has returned
PqIdle == [pc |-> "idle", op |-> None, class |-> None]

UnchangedButPq ==
    UNCHANGED <<transportVars, broadcastVars, inboundVars, registryVars,
                matrixVars, puppet, backoff, perf_cache, mqueue, retryVars,
                main_proc>>

\* PriorityQueue::new(capacity)
PqNew(capacity) ==
    /\ pqueue = NoPriorityQueue
    /\ pqueue' = [NoPriorityQueue EXCEPT
                    !.capacity = capacity,
                    !.calls = [c \in PqCallers |-> PqIdle]]
    /\ UnchangedButPq

PqMayCall(c) ==
    /\ pqueue.capacity > 0
    /\ pqueue.calls[c].pc = "idle"
    /\ pqueue.done
         + Cardinality({d \in PqCallers : pqueue.calls[d].pc # "idle"})
         < MaxPqCalls

\* push is called with a message of some priority
PqPushCall(c, priority) ==
    /\ PqMayCall(c)
    /\ pqueue' = [pqueue EXCEPT
                    !.calls[c] = [pc |-> "len", op |-> "push",
                                  class |-> class_of(priority)]]
    /\ UnchangedButPq

\* the three locks are taken, the lengths are added up and the locks are
\* released; a total of capacity or more returns QueueFull
PqPushLen(c) ==
    /\ pqueue.capacity > 0
    /\ pqueue.calls[c].pc = "len"
    /\ pqueue' =
         IF total_len(pqueue) >= pqueue.capacity
         THEN [pqueue EXCEPT !.calls[c] = PqIdle,
                             !.done = @ + 1,
                             !.full = @ + 1]
         ELSE [pqueue EXCEPT !.calls[c].pc = "enqueue"]
    /\ UnchangedButPq

\* the lock of the message's class is taken and the message is pushed to
\* the back of that class
PqPushEnqueue(c) ==
    /\ pqueue.capacity > 0
    /\ pqueue.calls[c].pc = "enqueue"
    /\ LET id == pqueue.next_id
           class == pqueue.calls[c].class
       IN pqueue' = [pqueue EXCEPT
                       !.high = IF class = "high" THEN Append(@, id) ELSE @,
                       !.normal = IF class = "normal" THEN Append(@, id)
                                  ELSE @,
                       !.low = IF class = "low" THEN Append(@, id) ELSE @,
                       !.next_id = @ + 1,
                       !.calls[c] = PqIdle,
                       !.done = @ + 1]
    /\ UnchangedButPq

\* pop is called
PqPopCall(c) ==
    /\ PqMayCall(c)
    /\ pqueue' = [pqueue EXCEPT
                    !.calls[c] = [pc |-> "high", op |-> "pop",
                                  class |-> None]]
    /\ UnchangedButPq

\* self.high.lock().await.pop_front(), and the same for normal and low: a
\* message ends the call, an empty class passes on to the next one
PqPopClass(c) ==
    /\ pqueue.capacity > 0
    /\ pqueue.calls[c].pc \in PqClasses
    /\ LET class == pqueue.calls[c].pc
           queue == IF class = "high" THEN pqueue.high
                    ELSE IF class = "normal" THEN pqueue.normal
                    ELSE pqueue.low
       IN pqueue' =
            IF queue = <<>> /\ class # "low"
            THEN [pqueue EXCEPT
                    !.calls[c].pc = IF class = "high" THEN "normal"
                                    ELSE "low"]
            ELSE [pqueue EXCEPT
                    !.high = IF class = "high" THEN Tail(@) ELSE @,
                    !.normal = IF class = "normal" THEN Tail(@) ELSE @,
                    !.low = IF class = "low" /\ queue # <<>> THEN Tail(@)
                            ELSE @,
                    !.calls[c] = PqIdle,
                    !.done = @ + 1]
    /\ UnchangedButPq

----------------------------------------------------------------------------
(* RetryHandler::execute *)

\* the execute calls made on one handler in a run
MaxExecutes == 2

\* what one invocation of the operation returns: Ok, an error that
\* is_retryable, an error that is not
Outcomes == {"ok", "retryable", "fatal"}

UnchangedButRetryHandler ==
    UNCHANGED <<transportVars, broadcastVars, inboundVars, registryVars,
                matrixVars, puppet, backoff, perf_cache, perfVars,
                reconnection, main_proc>>

\* RetryHandler::new(config)
RetryNew(config) ==
    /\ retry_handler = NoRetryHandler
    /\ retry_handler' = [NoRetryHandler EXCEPT
                           !.backoff = create_backoff("Exponential", config),
                           !.pc = "idle"]
    /\ UnchangedButRetryHandler

\* execute is called; it takes &mut self, so one call runs at a time
RetryExecute ==
    /\ retry_handler.pc = "idle"
    /\ retry_handler.executes < MaxExecutes
    /\ retry_handler' = [retry_handler EXCEPT !.pc = "invoke",
                                              !.invocations = 0]
    /\ UnchangedButRetryHandler

\* one round of the loop: f().await, then the match on its result up to
\* the return or the sleep
RetryInvoke(outcome, factor) ==
    /\ retry_handler.pc = "invoke"
    /\ LET b == retry_handler.backoff
           n == retry_handler.invocations + 1
       IN retry_handler' =
            IF outcome = "ok"
            THEN [retry_handler EXCEPT
                    !.backoff = reset(b), !.pc = "idle",
                    !.invocations = n, !.executes = @ + 1,
                    !.last = "ok", !.last_invocations = n]
            ELSE IF outcome = "fatal" \/ is_exhausted(b)
            THEN [retry_handler EXCEPT
                    !.pc = "idle",
                    !.invocations = n, !.executes = @ + 1,
                    !.last = outcome, !.last_invocations = n]
            ELSE [retry_handler EXCEPT
                    !.backoff = next_delay(b, factor).state,
                    !.pc = "sleep",
                    !.invocations = n]
    /\ UnchangedButRetryHandler

\* tokio::time::sleep(delay).await is over
RetrySleepDone ==
    /\ retry_handler.pc = "sleep"
    /\ retry_handler' = [retry_handler EXCEPT !.pc = "invoke"]
    /\ UnchangedButRetryHandler

----------------------------------------------------------------------------
(* ReconnectionManager: the calls of its clones on the shared state *)

\* the concurrent callers and the calls made in a run
MaxReconnCallers == 2
MaxReconnCalls == 4

ReconnCallers == 1..MaxReconnCallers
ReconnOps == {"wait_for_reconnect_delay", "on_connected", "on_disconnected",
              "stop", "reset"}

\* the configurations of the manager's ExponentialBackoff
ReconnConfigs ==
    {config \in BackoffConfigs :
        /\ config.initial_delay = 16
        /\ config.multiplier = 4
        /\ ~config.jitter}

\* a call that has not been made, or has returned
ReconnIdle == [op |-> None, pc |-> "idle", while_sleeping |-> FALSE]

\* the call of caller c returns
reconn_return(m, c) ==
    [m EXCEPT !.calls[c] = ReconnIdle, !.done = @ + 1]

UnchangedButReconnection ==
    UNCHANGED <<transportVars, broadcastVars, inboundVars, registryVars,
                matrixVars, puppet, backoff, perf_cache, perfVars,
                retry_handler, main_proc>>

\* ReconnectionManager::new(config)
ReconnNew(config) ==
    /\ reconnection = NoReconnection
    /\ reconnection' = [NoReconnection EXCEPT
                          !.state = "Disconnected",
                          !.backoff = create_backoff("Exponential", config),
                          !.calls = [c \in ReconnCallers |-> ReconnIdle]]
    /\ UnchangedButReconnection

\* a clone of the manager is called; while_sleeping records that a
\* wait_for_reconnect_delay call was sleeping at the time of the call
ReconnCall(c, op) ==
    /\ reconnection.state # None
    /\ reconnection.calls[c].pc = "idle"
    /\ reconnection.done
         + Cardinality({d \in ReconnCallers :
                           reconnection.calls[d].pc # "idle"})
         < MaxReconnCalls
    /\ reconnection' = [reconnection EXCEPT
                          !.calls[c] =
                             [op |-> op, pc |-> "start",
                              while_sleeping |->
                                 \E d \in ReconnCallers :
                                    reconnection.calls[d].pc = "sleeping"]]
    /\ UnchangedButReconnection

\* wait_for_reconnect_delay: the write lock of the backoff is taken and
\* next_delay is asked; with a delay the call sleeps holding the lock,
\* without one it sets the state to Failed and returns false
ReconnWaitLock(c) ==
    /\ reconnection.state # None
    /\ reconnection.calls[c].op = "wait_for_reconnect_delay"
    /\ reconnection.calls[c].pc = "start"
    /\ reconnection.holder = NoHolder
    /\ LET r == next_delay(reconnection.backoff, 0)
       IN reconnection' =
            IF r.delay = NoDelay
            THEN reconn_return([reconnection EXCEPT !.state = "Failed"], c)
            ELSE [reconnection EXCEPT !.backoff = r.state,
                                      !.holder = c,
                                      !.calls[c].pc = "sleeping"]
    /\ UnchangedButReconnection

\* the sleep branch of the select ends first: true, and the lock is
\* released
ReconnSleepDone(c) ==
    /\ reconnection.state # None
    /\ reconnection.calls[c].pc = "sleeping"
    /\ reconnection' =
         reconn_return([reconnection EXCEPT !.holder = NoHolder,
                                            !.granted = @ + 1], c)
    /\ UnchangedButReconnection

\* the branch that polls stop_signal ends first: false, and the lock is
\* released
ReconnStopSeen(c) ==
    /\ reconnection.state # None
    /\ reconnection.calls[c].pc = "sleeping"
    /\ reconnection.stop_signal
    /\ reconnection' =
         reconn_return([reconnection EXCEPT !.holder = NoHolder], c)
    /\ UnchangedButReconnection

\* on_connected: self.set_state(ConnectionState::Connected).await
ReconnOnConnectedState(c) ==
    /\ reconnection.state # None
    /\ reconnection.calls[c].op = "on_connected"
    /\ reconnection.calls[c].pc = "start"
    /\ reconnection' = [reconnection EXCEPT !.state = "Connected",
                                            !.calls[c].pc = "reset"]
    /\ UnchangedButReconnection

\* on_connected: self.backoff.write().await.reset()
ReconnOnConnectedReset(c) ==
    /\ reconnection.state # None
    /\ reconnection.calls[c].op = "on_connected"
    /\ reconnection.calls[c].pc = "reset"
    /\ reconnection.holder = NoHolder
    /\ reconnection' =
         reconn_return([reconnection EXCEPT !.backoff = reset(@),
                                            !.granted = 0], c)
    /\ UnchangedButReconnection

\* on_disconnected: Connected becomes Disconnected
ReconnOnDisconnected(c) ==
    /\ reconnection.state # None
    /\ reconnection.calls[c].op = "on_disconnected"
    /\ reconnection.calls[c].pc = "start"
    /\ reconnection' =
         reconn_return([reconnection EXCEPT
                          !.state = IF @ = "Connected" THEN "Disconnected"
                                    ELSE @], c)
    /\ UnchangedButReconnection

\* stop: stop_signal is set
ReconnStop(c) ==
    /\ reconnection.state # None
    /\ reconnection.calls[c].op = "stop"
    /\ reconnection.calls[c].pc = "start"
    /\ reconnection' =
         reconn_return([reconnection EXCEPT !.stop_signal = TRUE], c)
    /\ UnchangedButReconnection

\* reset: self.backoff.write().await.reset()
ReconnResetBackoff(c) ==
    /\ reconnection.state # None
    /\ reconnection.calls[c].op = "reset"
    /\ reconnection.calls[c].pc = "start"
    /\ reconnection.holder = NoHolder
    /\ reconnection' = [reconnection EXCEPT !.backoff = reset(@),
                                            !.granted = 0,
                                            !.calls[c].pc = "signal"]
    /\ UnchangedButReconnection

\* reset: stop_signal is cleared
ReconnResetSignal(c) ==
    /\ reconnection.state # None
    /\ reconnection.calls[c].op = "reset"
    /\ reconnection.calls[c].pc = "signal"
    /\ reconnection' = [reconnection EXCEPT !.stop_signal = FALSE,
                                            !.calls[c].pc = "state"]
    /\ UnchangedButReconnection

\* reset: the state becomes Disconnected
ReconnResetState(c) ==
    /\ reconnection.state # None
    /\ reconnection.calls[c].op = "reset"
    /\ reconnection.calls[c].pc = "state"
    /\ reconnection' =
         reconn_return([reconnection EXCEPT !.state = "Disconnected"], c)
    /\ UnchangedButReconnection

----------------------------------------------------------------------------
(* main: the tasks it spawns and the select that ends the process *)

UnchangedButMain ==
    UNCHANGED <<transportVars, broadcastVars, inboundVars, registryVars,
                matrixVars, puppet, backoff, perf_cache, perfVars,
                retryVars>>

\* the process has not exited: its runtime polls the tasks it spawned
ProcessRuns == main_proc.main # "exited"

\* the bridge task has been spawned and runs bridge.start()
BridgeTaskRuns == ProcessRuns /\ main_proc.bridge = "spawned"

\* start() spawns the agent transport server before anything else: it
\* accepts connections from then on
ServiceRuns == ProcessRuns /\ main_proc.bridge # "unspawned"

\* tokio::spawn of the web server and of the bridge task; main reaches the
\* select
MainSpawn ==
    /\ main_proc.main = "init"
    /\ main_proc' = [main_proc EXCEPT !.main = "select",
                                      !.web = "running",
                                      !.bridge = "spawned"]
    /\ UnchangedButMain

\* bridge_for_task.start() has returned Ok after spawning the consumer: the
\* closure of the bridge task ends and its JoinHandle is ready
MainBridgeTaskEnds ==
    /\ BridgeTaskRuns
    /\ event_rx.state # "unstarted"
    /\ main_proc' = [main_proc EXCEPT !.bridge = "ended"]
    /\ UnchangedButMain

\* the web server task ends
MainWebTaskEnds ==
    /\ ProcessRuns
    /\ main_proc.web = "running"
    /\ main_proc' = [main_proc EXCEPT !.web = "ended"]
    /\ UnchangedButMain

\* ctrl_c
MainSignal ==
    /\ ProcessRuns
    /\ main_proc.main = "select"
    /\ ~main_proc.signal
    /\ main_proc' = [main_proc EXCEPT !.signal = TRUE]
    /\ UnchangedButMain

\* the arms of the select that are ready
ready_arms ==
    {arm \in {"bridge_handle", "web_handle", "ctrl_c"} :
        \/ arm = "bridge_handle" /\ main_proc.bridge = "ended"
        \/ arm = "web_handle" /\ main_proc.web = "ended"
        \/ arm = "ctrl_c" /\ main_proc.signal}

\* tokio::select! takes an arm that is ready
MainSelect(arm) ==
    /\ main_proc.main = "select"
    /\ arm \in ready_arms
    /\ main_proc' = [main_proc EXCEPT !.main = "stopping", !.arm = arm]
    /\ UnchangedButMain

\* bridge.stop().await, which only logs, and main returns: the runtime is
\* dropped with every task it still runs
MainExit ==
    /\ main_proc.main = "stopping"
    /\ main_proc' = [main_proc EXCEPT !.main = "exited"]
    /\ UnchangedButMain

----------------------------------------------------------------------------
\* one step of a request() call
RequestStep(r) ==
    \/ ReqAlloc(r)
    \/ ReqInsert(r)
    \/ ReqGetConnection(r)
    \/ ReqSend(r)
    \/ ReqNoConnection(r)
    \/ ReqResponse(r)
    \/ ReqTimeout(r)
    \/ ReqTimeoutRemove(r)

\* one step of a handle_socket task
SocketStep(c) ==
    \/ \E a \in Addrs : Connect(c, a)
    \/ SocketSend(c)
    \/ \E f \in Frames : SocketRecv(c, f)
    \/ SocketClosed(c)
    \/ SocketCleanup(c)

\* the request/response side of the transport: nobody has subscribed
Next ==
    \/ \E r \in Callers : RequestStep(r)
    \/ \E c \in Conns : SocketStep(c)

Spec == Init /\ [][Next]_vars

\* the request/response side with the timer of every waiting call running:
\* a call that waits gets its response or its timeout, and a call whose
\* timeout fired goes on to remove its waiter and return
FairRequest ==
    \A r \in Callers :
       /\ WF_vars(ReqResponse(r))
       /\ WF_vars(ReqTimeout(r))
       /\ WF_vars(ReqTimeoutRemove(r))

SpecRequestLive == Init /\ [][Next]_vars /\ FairRequest

\* the push side of the transport: one caller, one agent, the subscribers
EventCallers == {1}
EventConns == {1}

NextEvents ==
    \/ \E r \in EventCallers : RequestStep(r)
    \/ \E c \in EventConns : SocketStep(c)
    \/ \E s \in Subs : subscribe_events(s)
    \/ \E s \in Subs : SubRecv(s)

SpecEvents == Init /\ [][NextEvents]_vars

\* the inbound pipeline: one agent pushing events, the bridge consuming them
BridgeFrames ==
    [msg_type : {"request"}, id : {0}, data : {"ok"}, payload : {None},
     request_type : {"event"}, ev : {"ok"}, event : BridgeEvents]

NextBridge ==
    \/ \E a \in Addrs : Connect(1, a)
    \/ \E f \in BridgeFrames : SocketRecv(1, f)
    \/ BridgeStart
    \/ ConsumerStep

SpecBridge == Init /\ [][NextBridge]_vars

\* the rooms createRoom has made
RoomIds == {create_room_calls[i].room : i \in DOMAIN create_room_calls} \ {0}

\* the inbound pipeline together with the portal commands
NextCommands ==
    \/ NextBridge
    \/ \E room \in RoomIds : CmdDeletePortal(room)
    \/ CmdDeleteAllPortals

SpecCommands == Init /\ [][NextCommands]_vars

\* the inbound pipeline with revokes
RevokeFrames ==
    [msg_type : {"request"}, id : {0}, data : {"ok"}, payload : {None},
     request_type : {"event"}, ev : {"ok"}, event : RevokeEvents]

NextRevoke ==
    \/ \E a \in Addrs : Connect(1, a)
    \/ \E f \in RevokeFrames : SocketRecv(1, f)
    \/ BridgeStart
    \/ ConsumerStep

SpecRevoke == Init /\ [][NextRevoke]_vars

\* the registry: concurrent get_portal_by_key calls on the bridge clones
NextRegistry ==
    \/ \E t \in Tasks, i \in Instances, k \in ChatIds \X SenderIds :
          RegLookup(t, i, k)
    \/ \E t \in Tasks : RegDbGet(t)
    \/ \E t \in Tasks : RegDbInsert(t)
    \/ \E t \in Tasks : RegCacheInsert(t)

SpecRegistry == Init /\ [][NextRegistry]_vars

\* the agent pushes one text event, which makes the portal of its chat
MatrixFrames ==
    {f \in BridgeFrames : /\ f.event.id = "m1"
                          /\ f.event.chat = "C1"
                          /\ f.event.event_type = "text"
                          /\ f.event.content # None}

\* the rooms the chat network sends events from: the portals' and one more
MxRooms == 1..MaxEvents

\* the appservice side: the inbound pipeline makes the portals, transactions
\* bring commands and messages
NextMatrix ==
    \/ \E a \in Addrs : Connect(1, a)
    \/ \E f \in MatrixFrames : SocketRecv(1, f)
    \/ BridgeStart
    \/ ConsumerStep
    \/ TxnBegin /\ UNCHANGED txn
    \/ \E a \in Mxids, outcome \in LoginOutcomes :
          MxLogin(a, outcome) /\ UNCHANGED txn
    \/ \E a \in Mxids : MxLogout(a) /\ UNCHANGED txn
    \/ \E a \in Mxids, room \in MxRooms :
          MxText(a, room, 0) /\ UNCHANGED txn

SpecMatrix == Init /\ [][NextMatrix]_vars

\* the outbound message handlers, applied to every user, portal and event
NextOutbound ==
    \E kind \in TextKinds \cup MediaKinds, has_client \in BOOLEAN,
       key \in ChatIds \X SenderIds, has_event_id \in BOOLEAN,
       media_ok \in BOOLEAN, reply \in SendReplies,
       in_reply_to \in {0, FirstMxEventId} :
      /\ MxMessage(kind, has_client, key, has_event_id, media_ok, reply,
                   in_reply_to)
      /\ UNCHANGED txn

SpecOutbound == Init /\ [][NextOutbound]_vars

\* redactions from the chat network, the inbound pipeline making the records
NextRedaction ==
    \/ \E a \in Addrs : Connect(1, a)
    \/ \E f \in MatrixFrames : SocketRecv(1, f)
    \/ BridgeStart
    \/ ConsumerStep
    \/ \E a \in Mxids, room \in MxRooms \cup {0},
          target \in RedactionTargets :
             MxRedaction(a, room, target) /\ UNCHANGED txn

SpecRedaction == Init /\ [][NextRedaction]_vars

\* replies from the chat network: the account logs in and sends text
\* messages that reply to an event, in the first room the inbound pipeline
\* makes
NextReply ==
    \/ \E a \in Addrs : Connect(1, a)
    \/ \E f \in MatrixFrames : SocketRecv(1, f)
    \/ BridgeStart
    \/ ConsumerStep
    \/ TxnBegin /\ UNCHANGED txn
    \/ \E a \in Mxids : MxLogin(a, "logged") /\ UNCHANGED txn
    \/ \E a \in Mxids, in_reply_to \in ReplyRefs :
          MxText(a, 1, in_reply_to) /\ UNCHANGED txn

SpecReply == Init /\ [][NextReply]_vars

\* transactions from the chat network, the inbound pipeline making the
\* first portal
NextTransaction ==
    \/ \E a \in Addrs : Connect(1, a)
    \/ \E f \in MatrixFrames : SocketRecv(1, f)
    \/ BridgeStart
    \/ ConsumerStep
    \/ \E events \in Transactions : TxnReceive(events)
    \/ TxnHandle
    \/ TxnReturn

SpecTransaction == Init /\ [][NextTransaction]_vars

\* the updates of one puppet
NextPuppet ==
    \/ \E name \in Names \cup {None}, force \in BOOLEAN, set_ok \in BOOLEAN :
          PuppetSync(name, force, set_ok)
    \/ \E name \in Names : PuppetSetDisplayname(name)

SpecPuppet == Init /\ [][NextPuppet]_vars

\* one backoff of any strategy and configuration, and the calls made on it
NextBackoff ==
    \/ \E strategy \in Strategies, config \in BackoffConfigs :
          BackoffNew(strategy, config)
    \/ \E factor \in JitterFactors : BackoffNextDelay(factor)
    \/ BackoffReset

SpecBackoff == Init /\ [][NextBackoff]_vars

\* one cache and its concurrent callers
NextCache ==
    \/ \E max_size \in 1..MaxCacheSize : CacheNew(max_size)
    \/ \E c \in CacheCallers, call \in CacheOps : CacheCall(c, call)
    \/ \E c \in CacheCallers, tick \in {0, 1} : CacheRun(c, tick)

SpecCache == Init /\ [][NextCache]_vars

\* one MessageQueue and the concurrent callers of push, push_front and pop
NextQueue ==
    \/ \E capacity \in 1..MaxQueueCapacity : QueueNew(capacity)
    \/ \E c \in QueueCallers, op \in QueueOps : QueueCall(c, op)
    \/ \E c \in QueueCallers : QueueRun(c)

SpecQueue == Init /\ [][NextQueue]_vars

\* one MessageQueue, the callers of push and the callers of
\* wait_for_message
NextQueueWait ==
    \/ \E capacity \in 1..MaxQueueCapacity : QueueNew(capacity)
    \/ \E c \in QueueCallers : QueueCall(c, "push")
    \/ \E c \in QueueCallers : QueueRun(c)
    \/ \E c \in QueueConsumers : QueueWaitCall(c)
    \/ \E c \in QueueConsumers : QueueWaitCheck(c)
    \/ \E c \in QueueConsumers : QueueWaitNotified(c)

\* every call that can take a step takes it: the runtime polls a task that
\* was woken, and the lock is handed to each waiting task in turn
FairQueueWait ==
    /\ \A c \in QueueCallers : WF_vars(QueueRun(c))
    /\ \A c \in QueueConsumers :
          WF_vars(QueueWaitCheck(c)) /\ WF_vars(QueueWaitNotified(c))

SpecQueueWait == Init /\ [][NextQueueWait]_vars /\ FairQueueWait

\* one PriorityQueue and the concurrent callers of push and pop
NextPq ==
    \/ \E capacity \in 1..MaxPqCapacity : PqNew(capacity)
    \/ \E c \in PqCallers, priority \in Priorities : PqPushCall(c, priority)
    \/ \E c \in PqCallers : PqPushLen(c)
    \/ \E c \in PqCallers : PqPushEnqueue(c)
    \/ \E c \in PqCallers : PqPopCall(c)
    \/ \E c \in PqCallers : PqPopClass(c)

SpecPq == Init /\ [][NextPq]_vars

\* one RetryHandler and the execute calls made on it
NextRetry ==
    \/ \E config \in BackoffConfigs : RetryNew(config)
    \/ RetryExecute
    \/ \E outcome \in Outcomes, factor \in JitterFactors :
          RetryInvoke(outcome, factor)
    \/ RetrySleepDone

SpecRetry == Init /\ [][NextRetry]_vars

\* one ReconnectionManager and the concurrent calls of its clones
NextReconnection ==
    \/ \E config \in ReconnConfigs : ReconnNew(config)
    \/ \E c \in ReconnCallers, op \in ReconnOps : ReconnCall(c, op)
    \/ \E c \in ReconnCallers : ReconnWaitLock(c)
    \/ \E c \in ReconnCallers : ReconnSleepDone(c)
    \/ \E c \in ReconnCallers : ReconnStopSeen(c)
    \/ \E c \in ReconnCallers : ReconnOnConnectedState(c)
    \/ \E c \in ReconnCallers : ReconnOnConnectedReset(c)
    \/ \E c \in ReconnCallers : ReconnOnDisconnected(c)
    \/ \E c \in ReconnCallers : ReconnStop(c)
    \/ \E c \in ReconnCallers : ReconnResetBackoff(c)
    \/ \E c \in ReconnCallers : ReconnResetSignal(c)
    \/ \E c \in ReconnCallers : ReconnResetState(c)

SpecReconnection == Init /\ [][NextReconnection]_vars

\* the process from main's spawns to its exit, with the agent connecting
\* and sending events while the process runs
NextMain ==
    \/ MainSpawn
    \/ BridgeTaskRuns /\ BridgeStart
    \/ MainBridgeTaskEnds
    \/ MainWebTaskEnds
    \/ MainSignal
    \/ \E arm \in {"bridge_handle", "web_handle", "ctrl_c"} : MainSelect(arm)
    \/ MainExit
    \/ \E a \in Addrs : ServiceRuns /\ Connect(1, a)
    \/ \E f \in BridgeFrames : ServiceRuns /\ SocketRecv(1, f)
    \/ ProcessRuns /\ ConsumerStep

SpecMain == Init /\ [][NextMain]_vars

----------------------------------------------------------------------------
(* Properties *)

Keys == ChatIds \X SenderIds

\* calls that hold an id and have not returned
InFlight == {r \in Callers :
               calls[r].pc \in {"insert", "getconn", "send", "noconn", "wait",
                                "timedout"}}

\* C3: a Response frame with id X gives its payload to the waiter registered
\* under X and to nobody else, takes only X out of the pending map, and
\* changes nothing when no waiter is registered under X
C3_ResponseResolvesOnlyItsWaiter ==
    [][(pending_requests' # pending_requests \/ oneshot' # oneshot) =>
         \A c \in Conns, f \in Frames :
            (IsResponse(f) /\ SocketRecv(c, f)) =>
               /\ \A r \in Callers :
                     oneshot'[r] # oneshot[r] =>
                        /\ calls[r].id = f.id
                        /\ f.id \in DOMAIN pending_requests
                        /\ pending_requests[f.id] = r
                        /\ oneshot'[r] = f.payload
               /\ \A i \in DOMAIN pending_requests :
                     i # f.id => /\ i \in DOMAIN pending_requests'
                                 /\ pending_requests'[i] = pending_requests[i]
               /\ f.id \notin DOMAIN pending_requests'
               /\ calls' = calls
               /\ f.id \notin DOMAIN pending_requests => UNCHANGED vars]_vars

\* a call was answered while another one is still waiting for its response
C3_Witness ==
    \E r \in Callers, q \in Callers :
        /\ calls[r].pc = "ok"
        /\ oneshot[r] \in Payloads
        /\ calls[q].pc = "wait"
        /\ oneshot[q] = "empty"
        /\ calls[q].id \in DOMAIN pending_requests

\* the connection registered most recently
LatestConn ==
    IF \A c \in Conns : conn[c].state = "new"
    THEN 0
    ELSE CHOOSE c \in Conns :
           /\ conn[c].state # "new"
           /\ \A d \in Conns : d > c => conn[d].state = "new"

\* the connections registered in the map
Registered == {connections[a] : a \in {b \in Addrs : connections[b] # 0}}

\* rooms the RoomClient made for a portal key
RoomsMadeFor(k) ==
    {i \in DOMAIN create_room_calls :
        create_room_calls[i].key = k /\ create_room_calls[i].room # 0}

\* C1: for one portal key, createRoom materializes a room at most once: later
\* events for the key reuse the stored room id
C1_RoomMaterializedOnce ==
    \A k \in Keys : Cardinality(RoomsMadeFor(k)) <= 1

\* the step handles the received text event e for a key without a Portal and
\* handle_wechat_event returns Ok
HandlesNewKeyOk(e) ==
    /\ event_rx.state = "running"
    /\ event_rx'.next = event_rx.next + 1
    /\ e = BroadcastValue(event_tx, event_rx.next)
    /\ e.event_type = "text"
    /\ PortalKeyOf(e) \notin DOMAIN db_portal
    /\ PortalKeyOf(e) \notin DOMAIN portals_by_key
    /\ handled' = Append(handled, "ok")

\* one Portal row, one createRoom call, one message sent into the room made,
\* one CorrelationRecord from the event's id to the id the send returned
BridgedOnce(e) ==
    /\ DOMAIN db_portal' = DOMAIN db_portal \cup {PortalKeyOf(e)}
    /\ Len(create_room_calls') = Len(create_room_calls) + 1
    /\ create_room_calls'[Len(create_room_calls')].key = PortalKeyOf(e)
    /\ create_room_calls'[Len(create_room_calls')].room # 0
    /\ db_portal'[PortalKeyOf(e)].mxid =
          create_room_calls'[Len(create_room_calls')].room
    /\ Len(sent_messages') = Len(sent_messages) + 1
    /\ sent_messages'[Len(sent_messages')].room =
          create_room_calls'[Len(create_room_calls')].room
    /\ db_message' \ db_message =
          {[chat_uid |-> e.chat, chat_receiver |-> e.from, msg_id |-> e.id,
            mxid |-> Len(sent_messages')]}
    /\ db_message \subseteq db_message'

C4_NoConnectionFailsImmediately ==
    [][\A r \in Callers :
         /\ (/\ calls[r].pc = "getconn"
             /\ calls'[r].pc # "getconn"
             /\ Registered = {}) => calls'[r].pc = "noconn"
         /\ calls[r].pc = "noconn" =>
               calls'[r].pc \in {"noconn", "err_noconn"}
         /\ calls'[r].pc \in {"noconn", "err_noconn"} =>
               /\ calls'[r].id \notin enqueued'
               /\ \A c \in Conns : \A i \in DOMAIN conn'[c].outq :
                     conn'[c].outq[i] # calls'[r].id
         /\ calls'[r].pc = "err_noconn" =>
               calls'[r].id \notin DOMAIN pending_requests']_vars

\* a request failed for want of a connection
C4_Witness == \E r \in Callers : calls[r].pc = "err_noconn"

\* C5: a call that returned a timeout or transport-loss error has no waiter
\* left in the pending map, and the map holds only ids of calls in flight
C5_PendingHoldsOnlyInFlight ==
    /\ \A r \in Callers :
          calls[r].pc \in {"err_noconn", "err_send", "err_timeout"} =>
             calls[r].id \notin DOMAIN pending_requests
    /\ \A i \in DOMAIN pending_requests :
          \E r \in InFlight : calls[r].id = i

\* a sequence of integers is strictly increasing
StrictlyIncreasing(q) == \A i \in 1..(Len(q) - 1) : q[i] < q[i + 1]

\* C6: the ids handed out are strictly increasing in allocation order,
\* whatever connections come and go, and no two calls hold the same id
C6_IdsDistinctAndIncreasing ==
    /\ StrictlyIncreasing(alloc_log)
    /\ \A i \in DOMAIN alloc_log : alloc_log[i] <= request_id
    /\ \A r \in Callers, q \in Callers :
          (r # q /\ calls[r].id # 0 /\ calls[q].id # 0) =>
             calls[r].id # calls[q].id

\* every caller got an id, the last of them after the first agent had gone
\* and a second one had connected
C6_Witness ==
    /\ Len(alloc_log) = MaxCallers
    /\ conn[1].state = "done"
    /\ conn[2].state = "open"
    /\ \E r \in Callers : calls[r].pc = "wait" /\ calls[r].id = MaxCallers

\* C7: at most one connection is registered, and a request that gets a
\* connection gets the one that connected last
C7_SingleCanonicalConnection ==
    [][/\ Cardinality({a \in Addrs : connections'[a] # 0}) <= 1
       /\ \A r \in Callers :
             (calls[r].pc = "getconn" /\ calls'[r].pc = "send") =>
                calls'[r].conn = LatestConn]_vars

\* C8: closing a connection fails no pending waiter, and once the agent that
\* connected last has closed, a request that looks for a connection before
\* the next connect fails at once
C8_DisconnectKeepsWaitersFailsNewRequests ==
    [][/\ (\E c \in Conns : conn[c].state # conn'[c].state
                            /\ conn'[c].state \in {"closing", "done"}) =>
             (pending_requests' = pending_requests /\ oneshot' = oneshot)
       /\ \A r \in Callers :
             (/\ calls[r].pc = "getconn"
              /\ calls'[r].pc # "getconn"
              /\ LatestConn # 0
              /\ conn[LatestConn].state = "done") =>
                calls'[r].pc = "noconn"]_vars

\* positions start + 1 .. next, in order
Positions(start, next) == [i \in 1..(next - start) |-> start + i]

\* the Request frames that are not a decodable Event
OtherRequestFrames ==
    {f \in Frames :
        /\ f.msg_type = "request"
        /\ (f.data # "ok" \/ f.request_type # "event" \/ f.ev # "ok")}

\* a Request frame that is not a decodable Event changes nothing: nothing is
\* broadcast, no waiter is resolved, nothing is queued for the agent
OtherRequestsIgnored ==
    (event_tx' # event_tx \/ pending_requests' # pending_requests
       \/ oneshot' # oneshot \/ conn' # conn) =>
       \A c \in Conns, f \in OtherRequestFrames : ~SocketRecv(c, f)

C10_ConsumerNeverStops == event_rx.state # "stopped"

\* the get_portal_by_key calls that have returned
RegReturned == {t \in Tasks : reg_calls[t].pc \in {"ok", "err"}}

C12_SingleSharedInstance ==
    /\ \A t \in RegReturned : reg_calls[t].pc = "ok"
    /\ \A t \in RegReturned, u \in RegReturned :
          reg_calls[t].key = reg_calls[u].key =>
             reg_calls[t].arc = reg_calls[u].arc

\* C13: after handle_wechat_event has returned Ok, the Portal the registry
\* cache holds for a key has the field values of the key's row in the Store
C13_CacheAgreesWithStore ==
    [][handled' = Append(handled, "ok") =>
         \A k \in DOMAIN portals_by_key' :
            /\ k \in DOMAIN db_portal'
            /\ portals_by_key'[k] = db_portal'[k]]_vars

\* C14: a room id enters the by-room-id index only in a step that made the
\* room, and a step that clears a Portal's room id in the Store leaves the
\* index without an entry for the old room id and the by-key cache with no
\* room id for the key
C14_RoomIndexFollowsRoomId ==
    [][/\ \A room \in DOMAIN portals_by_mxid' :
             room \notin DOMAIN portals_by_mxid =>
                \E i \in DOMAIN create_room_calls' :
                   /\ i \notin DOMAIN create_room_calls
                   /\ create_room_calls'[i].room = room
       /\ \A k \in DOMAIN db_portal :
             (db_portal[k].mxid # 0 /\ db_portal'[k].mxid = 0) =>
                /\ db_portal[k].mxid \notin DOMAIN portals_by_mxid'
                /\ k \in DOMAIN portals_by_key' =>
                      portals_by_key'[k].mxid = 0]_vars

\* the last event handled is a text message of account a in a bridged room
TextHandled(a) ==
    /\ Len(mx_log') = Len(mx_log) + 1
    /\ mx_log'[Len(mx_log')].kind = "text"
    /\ mx_log'[Len(mx_log')].sender = a
    /\ mx_log'[Len(mx_log')].result # "no_portal"

\* C15: a text message of an account in a bridged room produces a send-text
\* request to the agent exactly when the account has logged in and has not
\* logged out since
C15_SessionHandleWhileLoggedIn ==
    [][\A a \in Mxids :
         TextHandled(a) =>
           IF a \in session
           THEN /\ Len(agent_requests') = Len(agent_requests) + 1
                /\ agent_requests'[Len(agent_requests')].kind = "send_text"
           ELSE agent_requests' = agent_requests]_vars

\* the last event handled is a message whose send call returned ext for
\* the chat event id event
Forwarded(ext, event) ==
    /\ Len(mx_log') = Len(mx_log) + 1
    /\ mx_log'[Len(mx_log')].kind \in TextKinds \cup MediaKinds
    /\ mx_log'[Len(mx_log')].ext = ext
    /\ mx_log'[Len(mx_log')].event = event

C17_CorrelationResolvesBothWays ==
    \A m \in db_message :
       /\ get_message_by_mxid(db_message, m.mxid) # {}
       /\ \A r \in get_message_by_mxid(db_message, m.mxid) :
             r.msg_id = m.msg_id
       /\ get_message_by_wechat_id(db_message, m.msg_id) # {}
       /\ \A r \in get_message_by_wechat_id(db_message, m.msg_id) :
             r.mxid = m.mxid

\* the consumer handles an event whose (conversation key, external message
\* id) already has a CorrelationRecord, and sends it to the room again
ReplayBridged(e) ==
    /\ event_rx.state = "running"
    /\ BroadcastRecvKind(event_tx, event_rx.next) = "value"
    /\ BroadcastValue(event_tx, event_rx.next) = e
    /\ \E m \in db_message : /\ <<m.chat_uid, m.chat_receiver>> = PortalKeyOf(e)
                              /\ m.msg_id = e.id
    /\ Len(sent_messages') = Len(sent_messages) + 1

\* C18: replaying an ExternalEvent leaves exactly one CorrelationRecord for
\* its (key, extId), and that record carries the chat event id of the replay:
\* the second write overwrites, it is not rejected
C18_ReplayOverwrites ==
    [][\A e \in BridgeEvents :
         ReplayBridged(e) =>
           {m \in db_message' : /\ <<m.chat_uid, m.chat_receiver>> = PortalKeyOf(e)
                                /\ m.msg_id = e.id}
             = {DbMessageOf(e, Len(sent_messages'))}]_vars

\* the consumer handles a Revoke event that names the external message id
\* target
RevokeHandled(target) ==
    /\ event_rx.state = "running"
    /\ event_rx'.next = event_rx.next + 1
    /\ BroadcastValue(event_tx, event_rx.next).event_type = "revoke"
    /\ BroadcastValue(event_tx, event_rx.next).data # None
    /\ revoke_msg_id(BroadcastValue(event_tx, event_rx.next)) = target

\* the redaction the claim asks for, for record m: the room of m's Portal and
\* m's chat event id
RedactionOf(m) ==
    [room |-> RoomIdStr(db_portal[<<m.chat_uid, m.chat_receiver>>].mxid),
     event |-> m.mxid]

\* C19: a Revoke event whose target has a CorrelationRecord issues exactly
\* one redaction, addressed to the room of the record's Portal and to the
\* record's chat event id; without a record no RoomClient call and no Store
\* write is made and handling succeeds
C19_RevokeRedactsMappedEvent ==
    [][\A target \in MsgIds :
         RevokeHandled(target) =>
           IF get_message_by_wechat_id(db_message, target) = {}
           THEN /\ redactions' = redactions
                /\ create_room_calls' = create_room_calls
                /\ sent_messages' = sent_messages
                /\ <<db_portal, db_puppet, db_message>>' =
                      <<db_portal, db_puppet, db_message>>
                /\ handled' = Append(handled, "ok")
           ELSE \E m \in get_message_by_wechat_id(db_message, target) :
                  redactions' = Append(redactions, RedactionOf(m))]_vars

\* the last event handled is a redaction of the chat event id target
RedactionHandled(target) ==
    /\ Len(mx_log') = Len(mx_log) + 1
    /\ mx_log'[Len(mx_log')].kind = "redaction"
    /\ mx_log'[Len(mx_log')].event = target

\* the CorrelationRecords of a chat event id
RecordsOfEvent(target) == {m \in db_message : m.mxid = target}

ReplyHandled(ref) ==
    /\ Len(mx_log') = Len(mx_log) + 1
    /\ mx_log'[Len(mx_log')].kind = "text"
    /\ mx_log'[Len(mx_log')].sender \in session
    /\ mx_log'[Len(mx_log')].result # "no_portal"
    /\ mx_log'[Len(mx_log')].reply = ref

\* C21: a message that replies to a chat event id without CorrelationRecord
\* is still sent to the agent exactly once, without a reply reference, and
\* handling does not fail
C21_ReplyMissDegrades ==
    [][\A ref \in ReplyRefs \ {0} :
         (ReplyHandled(ref) /\ RecordsOfEvent(ref) = {}) =>
           /\ Len(agent_requests') = Len(agent_requests) + 1
           /\ agent_requests'[Len(agent_requests')].kind = "send_text"
           /\ agent_requests'[Len(agent_requests')].reply_to = None]_vars

\* the step is a turn of the transaction loop that handles event ev
EventHandled(ev) ==
    /\ txn.pos <= Len(txn.events)
    /\ txn.events[txn.pos] = ev
    /\ txn'.pos = txn.pos + 1

\* the event is older than the age ceiling
OlderThanCeiling(ev) == ev.ts # NoTs /\ Now - ev.ts > EventAgeLimit

\* C22: an event sent by the bridge bot or by an account of the puppet
\* namespace, or older than the age ceiling, is dropped whatever its type:
\* no agent request, no Store write and no RoomClient call
C22_OwnAndOldEventsDropped ==
    [][\A ev \in TxnEvents :
         (/\ EventHandled(ev)
          /\ \/ ev.sender = BotMxid
             \/ ev.sender \in PuppetMxids
             \/ OlderThanCeiling(ev)) =>
           /\ agent_requests' = agent_requests
           /\ <<db_user, db_portal, db_puppet, db_message>>' =
                 <<db_user, db_portal, db_puppet, db_message>>
           /\ <<create_room_calls, sent_messages, redactions>>' =
                 <<create_room_calls, sent_messages, redactions>>]_vars

\* the body starts with the command prefix
HasCommandPrefix(ev) == Len(ev.body) > 0 /\ ev.body[1] = CommandPrefix

PlainMessage(ev) ==
    /\ ev.type = "m.room.message"
    /\ ev.body # <<>>
    /\ ~HasCommandPrefix(ev)
    /\ ev.sender \in Mxids
    /\ ~OlderThanCeiling(ev)

\* C24: a non-command message in a room that is no bridged portal, or from a
\* sender without a User row, is dropped: no agent request, and no User,
\* Portal or CorrelationRecord row is created or modified
C24_UnbridgedOrUnknownDropped ==
    [][\A ev \in TxnEvents :
         (/\ EventHandled(ev)
          /\ PlainMessage(ev)
          /\ \/ \A k \in DOMAIN db_portal : db_portal[k].mxid # ev.room
             \/ ev.sender \notin DOMAIN db_user) =>
           /\ agent_requests' = agent_requests
           /\ <<db_user, db_portal, db_message>>' =
                 <<db_user, db_portal, db_message>>]_vars

\* C25: the events of a transaction are handled in list order, an event that
\* fails does not keep the later ones from being handled, and
\* handle_transaction returns Ok only after every event was handled,
\* whatever the handlers returned
C25_FailuresDoNotPropagate ==
    [][/\ txn'.pos # txn.pos /\ txn'.events = txn.events =>
             /\ txn'.pos = txn.pos + 1
             /\ Len(txn'.results) = txn.pos
             /\ Len(mx_log') = Len(mx_log) + 1
             /\ mx_log'[Len(mx_log')].sender = txn.events[txn.pos].sender
             /\ mx_log'[Len(mx_log')].room = txn.events[txn.pos].room
       /\ txn'.returned # txn.returned =>
             /\ txn'.returned = txn.returned + 1
             /\ Len(txn.results) = Len(txn.events)]_vars

\* a transaction of two events has returned: the first was a command whose
\* notice failed, the second a message in the bridged room, which was
\* handled and made the sender's User row
C25_Witness ==
    /\ txn.returned = 1
    /\ txn.results = <<"err", "ok">>
    /\ Len(mx_log) = 2
    /\ mx_log[1].kind = "command" /\ mx_log[1].result = "err"
    /\ mx_log[2].kind = "text" /\ mx_log[2].result = "no_client"
    /\ "@a" \in DOMAIN db_user

\* the step is a non-forced update of the puppet
NonForcedUpdate ==
    /\ Len(puppet'.log) = Len(puppet.log) + 1
    /\ ~puppet'.log[Len(puppet'.log)].force

\* C26: a non-forced update never lowers the puppet's display-name quality,
\* and once the quality is Name a non-forced update that carries an
\* id-sourced name leaves the quality and the display name unchanged
C26_NameQualityNeverDecreases ==
    [][NonForcedUpdate =>
         /\ puppet'.inner.name_quality >= puppet.inner.name_quality
         /\ (/\ puppet.inner.name_quality = NAME_QUALITY_NAME
             /\ puppet'.log[Len(puppet'.log)].name \in IdNames) =>
               /\ puppet'.inner.name_quality = puppet.inner.name_quality
               /\ puppet'.inner.displayname = puppet.inner.displayname]_vars

\* the accounts of the users bound to the external account uin
OwnersOf(uin) == {m \in DOMAIN db_user : db_user[m].uin = uin}

\* the createRoom request the claim asks for, for the call c
PresetFor(c) ==
    IF ChatType(c.key[1]) = "private" THEN "private_chat" ELSE "public_chat"

\* C27: every createRoom request made for a Portal without room id uses the
\* private_chat preset for a private chat and the non-direct preset for a
\* group, and invites exactly the owning chat account, the user bound to the
\* conversation's receiver, and the sender's puppet account
C27_CreateRoomPresetAndInvites ==
    [][Len(create_room_calls') = Len(create_room_calls) + 1 =>
         LET c == create_room_calls'[Len(create_room_calls')]
         IN /\ c.preset = PresetFor(c)
            /\ Len(c.invite) = 2
            /\ c.invite[2] = puppet_mxid(c.key[2])
            /\ OwnersOf(c.key[2]) # {} => c.invite[1] \in OwnersOf(c.key[2])]_vars

\* the calls made on the backoff since it was made or last reset
LastReset ==
    LET resets == {i \in DOMAIN backoff.log : backoff.log[i].op = "reset"}
    IN IF resets = {} THEN 0
       ELSE CHOOSE i \in resets : \A j \in resets : j <= i
SinceReset == SubSeq(backoff.log, LastReset + 1, Len(backoff.log))

\* next_delay returns a delay exactly max_retries times and then none until
\* reset; retry_count never exceeds max_retries; is_exhausted holds exactly
\* when retry_count equals max_retries
ExhaustsAfterMaxRetries ==
    /\ \A i \in DOMAIN SinceReset :
          (SinceReset[i].delay # NoDelay) <=> (i <= backoff.max_retries)
    /\ backoff.retry_count <= backoff.max_retries
    /\ is_exhausted(backoff) <=> (backoff.retry_count = backoff.max_retries)

\* the last call made on the backoff was reset
JustReset ==
    /\ backoff.log # <<>>
    /\ backoff.log[Len(backoff.log)].op = "reset"

\* the BackoffConfig the backoff was made with
ConfigOf(b) ==
    [initial_delay |-> b.initial_delay, max_delay |-> b.max_delay,
     multiplier |-> b.multiplier, max_retries |-> b.max_retries,
     jitter |-> b.jitter]

\* C28 as stated: for every strategy and every max_retries, next_delay
\* returns a delay exactly max_retries times and then none until reset,
\* retry_count never exceeds max_retries, is_exhausted holds exactly when
\* retry_count equals max_retries, and after reset retry_count is 0, the
\* backoff is not exhausted and the next delay is initial_delay
C28_BackoffExhaustsAndResets ==
    /\ ExhaustsAfterMaxRetries
    /\ JustReset =>
          /\ backoff.retry_count = 0
          /\ ~is_exhausted(backoff)
          /\ \A factor \in JitterFactors :
                next_delay(backoff, factor).delay = backoff.initial_delay

\* C28 amended: the same, but after reset the backoff is as create_backoff
\* made it: retry_count 0, and, when max_retries is at least 1, not
\* exhausted and the next delay is initial_delay, or zero for the immediate
\* strategy; with max_retries 0 a backoff is exhausted from the start
C28_BackoffResetsToCreated ==
    /\ ExhaustsAfterMaxRetries
    /\ JustReset =>
          /\ backoff.retry_count = 0
          /\ [backoff EXCEPT !.log = <<>>] =
                create_backoff(backoff.strategy, ConfigOf(backoff))
          /\ backoff.max_retries >= 1 =>
                /\ ~is_exhausted(backoff)
                /\ \A factor \in JitterFactors :
                      next_delay(backoff, factor).delay =
                        IF backoff.strategy = "Immediate" THEN 0
                        ELSE backoff.initial_delay
          /\ backoff.max_retries = 0 =>
                /\ is_exhausted(backoff)
                /\ \A factor \in JitterFactors :
                      next_delay(backoff, factor).delay = NoDelay

\* an exponential backoff with max_retries 2 and jitter returned two delays
\* and then none, was reset, and is ready to return initial_delay again
C28_Witness ==
    /\ backoff.strategy = "Exponential"
    /\ backoff.jitter
    /\ backoff.max_retries = 2
    /\ Len(backoff.log) = 4
    /\ backoff.log[1].delay = backoff.initial_delay
    /\ backoff.log[2].delay \notin {NoDelay, backoff.initial_delay}
    /\ backoff.log[3] = [op |-> "next_delay", delay |-> NoDelay]
    /\ backoff.log[4].op = "reset"
    /\ backoff.current_delay = backoff.initial_delay

RECURSIVE Pow(_, _)
Pow(x, n) == IF n = 0 THEN 1 ELSE x * Pow(x, n - 1)

\* min(initial_delay * multiplier^(k - 1), max_delay)
ExpectedDelay(b, k) ==
    Min((b.initial_delay * Pow(b.multiplier, k - 1))
           \div Pow(MultiplierUnit, k - 1),
        b.max_delay)

\* the step is a next_delay call on an exponential backoff without jitter
\* that returns the delay d, the k-th since the backoff was made or reset
ExponentialDelay(d, k) ==
    /\ backoff.strategy = "Exponential"
    /\ ~backoff.jitter
    /\ Len(backoff'.log) = Len(backoff.log) + 1
    /\ backoff'.log[Len(backoff'.log)] = [op |-> "next_delay", delay |-> d]
    /\ d # NoDelay
    /\ k = Len(SinceReset) + 1

\* C29: without jitter, every delay ExponentialBackoff::next_delay returns
\* is at least initial_delay and at most max_delay, the k-th delay is
\* min(initial_delay * multiplier^(k - 1), max_delay) and not below the one
\* before it, and the call raises retry_count by one
C29_ExponentialDelaysBounded ==
    [][\A d \in Delays, k \in 1..(MaxBackoffCalls + 1) :
         ExponentialDelay(d, k) =>
           /\ d >= backoff.initial_delay
           /\ d <= backoff.max_delay
           /\ d = ExpectedDelay(backoff, k)
           /\ k > 1 => d >= SinceReset[k - 1].delay
           /\ backoff'.retry_count = backoff.retry_count + 1]_vars

\* the step runs an insert of a key that is present
InsertOfPresentKey(c) ==
    /\ perf_cache.max_size > 0
    /\ perf_cache.pending[c] # <<>>
    /\ perf_cache.pending[c][1].op = "insert"
    /\ perf_cache.pending[c][1].key \in DOMAIN perf_cache.inner
    /\ perf_cache'.pending[c] = <<>>

\* C30: a cache made with max_size at least 1 never holds more than max_size
\* entries, whatever the callers do and in whatever order their calls get
\* the lock, and an insert of a key that is present replaces its value and
\* evicts no entry
C30_CacheSizeBounded ==
    /\ [](perf_cache.max_size >= 1 =>
            Cardinality(DOMAIN perf_cache.inner) <= perf_cache.max_size)
    /\ [][\A c \in CacheCallers :
            InsertOfPresentKey(c) =>
              /\ DOMAIN perf_cache'.inner = DOMAIN perf_cache.inner
              /\ perf_cache'.inner[perf_cache.pending[c][1].key].value =
                    perf_cache.pending[c][1].value
              /\ \A k \in DOMAIN perf_cache.inner :
                    k # perf_cache.pending[c][1].key =>
                       perf_cache'.inner[k] = perf_cache.inner[k]]_vars

\* a cache of max_size 2 is full after an insert evicted an entry and
\* another insert replaced the value of a key that was present
C30_Witness ==
    /\ perf_cache.max_size = 2
    /\ Cardinality(DOMAIN perf_cache.inner) = 2
    /\ perf_cache.evicted >= 1
    /\ perf_cache.replaced >= 1
    /\ "k3" \in DOMAIN perf_cache.inner

\* the messages a queue holds
QueuedIn(queue) == {queue[i] : i \in 1..Len(queue)}

\* a pop call ran from the lock to its return in this step
PopReturns ==
    /\ mqueue'.done = mqueue.done + 1
    /\ mqueue'.last_op = "pop"

\* message m is due before message b: a message pushed to the front is due
\* before every message that was queued when it was pushed and before
\* every message pushed to the back; messages pushed to the back are due
\* in the order of their pushes
DueBefore(m, b) ==
    IF m \in mqueue.front
    THEN b \notin mqueue.front \/ m > b
    ELSE b \notin mqueue.front /\ m < b

\* C31: pop on an empty queue returns None; otherwise it returns a queued
\* message that no pop returned before and that is due before every
\* message it leaves queued: messages come out in the order of their
\* pushes, a push_front message before every message queued before it,
\* whatever the order in which concurrent callers get the lock
C31_QueueIsFifo ==
    /\ [](mqueue.returned \cap QueuedIn(mqueue.queue) = {})
    /\ [][PopReturns =>
            IF mqueue.queue = <<>>
            THEN /\ mqueue'.last_msg = NoQueueMessage
                 /\ mqueue'.queue = <<>>
            ELSE /\ mqueue'.last_msg \in QueuedIn(mqueue.queue)
                 /\ mqueue'.last_msg \notin mqueue.returned
                 /\ QueuedIn(mqueue'.queue) =
                       QueuedIn(mqueue.queue) \ {mqueue'.last_msg}
                 /\ Len(mqueue'.queue) = Len(mqueue.queue) - 1
                 /\ \A b \in QueuedIn(mqueue'.queue) :
                       DueBefore(mqueue'.last_msg, b)]_vars

\* the last call of a run was a pop that returned a message pushed to the
\* front and left queued a message that was pushed to the back before it
C31_Witness ==
    /\ mqueue.last_op = "pop"
    /\ mqueue.last_msg \in mqueue.front
    /\ \E b \in QueuedIn(mqueue.queue) :
          b < mqueue.last_msg /\ b \notin mqueue.front
    /\ mqueue.done = MaxQueueCalls

\* a push or push_front call ran from the lock to its return in this step
PushReturns ==
    /\ mqueue'.done = mqueue.done + 1
    /\ mqueue'.last_op \in {"push", "push_front"}

\* C32: a push or push_front on a queue that holds capacity messages
\* returns QueueFull and leaves the queue as it was, a push on a queue
\* that holds fewer adds one message, and the queue never holds more than
\* capacity messages, whatever the order in which concurrent callers get
\* the lock
C32_FullQueueRejectsPush ==
    /\ [](Len(mqueue.queue) <= mqueue.capacity)
    /\ [][PushReturns =>
            IF Len(mqueue.queue) >= mqueue.capacity
            THEN /\ mqueue'.last_full
                 /\ mqueue'.queue = mqueue.queue
            ELSE /\ ~mqueue'.last_full
                 /\ Len(mqueue'.queue) = Len(mqueue.queue) + 1]_vars

\* a push_front on a queue of capacity 2 that held two messages returned
\* QueueFull
C32_Witness ==
    /\ mqueue.capacity = 2
    /\ Len(mqueue.queue) = 2
    /\ mqueue.last_op = "push_front"
    /\ mqueue.last_full

\* consumer c is inside wait_for_message while a message is queued
WaitsWhileQueued(c) ==
    /\ mqueue.capacity > 0
    /\ mqueue.pc[c] \in {"lock", "unlocked", "waiting"}
    /\ mqueue.queue # <<>>

\* consumer c has its message, or no message is queued
ReturnedOrDrained(c) ==
    /\ mqueue.capacity > 0
    /\ mqueue.pc[c] = "returned" \/ mqueue.queue = <<>>

\* C39: a consumer inside wait_for_message while a message is queued
\* eventually returns with a message, or the queue is emptied by others:
\* no consumer stays blocked forever while a message remains queued
C39_NoConsumerBlockedWhileQueued ==
    \A c \in QueueConsumers : WaitsWhileQueued(c) ~> ReturnedOrDrained(c)

\* C40: the messages held across the high, normal and low classes never
\* number more than the capacity, whatever the interleaving of concurrent
\* push and pop calls
C40_PriorityQueueNeverOverCapacity ==
    pqueue.capacity > 0 => total_len(pqueue) <= pqueue.capacity

\* an execute call has been made and has not invoked the operation yet
ExecuteStarts ==
    retry_handler.pc = "invoke" /\ retry_handler.invocations = 0

\* C37: an execute call invokes the operation at most max_retries + 1
\* times, and every execute call starts with the full retry budget of the
\* handler, whatever earlier execute calls on it returned
C37_ExecuteStartsWithFullBudget ==
    /\ retry_handler.invocations <= retry_handler.backoff.max_retries + 1
    /\ ExecuteStarts => retry_handler.backoff.retry_count = 0

\* the call of caller c was made while a wait was sleeping, is at a
\* statement that takes the write lock of the backoff, and the wait still
\* sleeps holding the lock
WaitsForBackoffLock(c) ==
    /\ reconnection.calls[c].while_sleeping
    /\ reconnection.holder \notin {NoHolder, c}
    /\ reconnection.calls[reconnection.holder].pc = "sleeping"
    /\ \/ reconnection.calls[c].op = "on_connected"
          /\ reconnection.calls[c].pc = "reset"
       \/ reconnection.calls[c].op = "reset"
          /\ reconnection.calls[c].pc = "start"

\* C38: between two on_connected or reset calls wait_for_reconnect_delay
\* returns true at most max_retries times, and an on_connected or reset
\* call made while a wait is sleeping is never held up by that sleep
C38_ReconnectBudgetAndNoWaitOnSleep ==
    reconnection.state # None =>
       /\ reconnection.granted <= reconnection.backoff.max_retries
       /\ \A c \in ReconnCallers : ~WaitsForBackoffLock(c)

\* C36: main goes on to bridge.stop() and to its exit only after a
\* shutdown signal has arrived or the web server task has ended
C36_RunsUntilSignalOrWebEnd ==
    main_proc.main \in {"stopping", "exited"} =>
       main_proc.signal \/ main_proc.web = "ended"

\* the consumer task receives a value and handles it in this step
ConsumerHandles ==
    /\ event_rx.state = "running"
    /\ event_rx'.next = event_rx.next + 1

\* the event broadcast longest ago among those the consumer has not
\* received
OldestUnreceived ==
    event_tx.buf[Len(event_tx.buf) - (event_tx.tail - event_rx.next) + 1]

\* C34: the consumer handles the events one per step, each time the one
\* broadcast longest ago among those it has not received; what the
\* handling of an event sends is appended after everything sent for the
\* events before it, and the record it writes carries the id of that
\* event and the event id of that last message: messages and records of a
\* conversation follow the order of arrival
C34_EventsHandledInBroadcastOrder ==
    [][/\ event_rx.state = "running" =>
             event_rx'.next \in {event_rx.next, event_rx.next + 1}
       /\ ConsumerHandles =>
             /\ Len(handled') = Len(handled) + 1
             /\ Len(sent_messages') \in
                   {Len(sent_messages), Len(sent_messages) + 1}
             /\ SubSeq(sent_messages', 1, Len(sent_messages)) = sent_messages
             /\ Len(sent_messages') > Len(sent_messages) =>
                   sent_messages'[Len(sent_messages')].body =
                      OldestUnreceived.content
             /\ db_message \subseteq db_message'
             /\ \A r \in db_message' \ db_message :
                   /\ r.msg_id = OldestUnreceived.id
                   /\ {r.chat_uid, r.chat_receiver} =
                         {OldestUnreceived.chat, OldestUnreceived.from}
                   /\ Len(sent_messages') = Len(sent_messages) + 1
                   /\ r.mxid = Len(sent_messages')]_vars

\* two events of one conversation have been broadcast and handled: two
\* messages were sent, and the record of the event broadcast first holds
\* the message sent first
C34_Witness ==
    /\ event_tx.tail = 2
    /\ event_rx.next = 2
    /\ Len(handled) = 2
    /\ Len(sent_messages) = 2
    /\ event_tx.buf[1].chat = event_tx.buf[2].chat
    /\ event_tx.buf[1].from = event_tx.buf[2].from
    /\ event_tx.buf[1].id # event_tx.buf[2].id
    /\ \E r1 \in db_message, r2 \in db_message :
          /\ r1.msg_id = event_tx.buf[1].id
          /\ r2.msg_id = event_tx.buf[2].id
          /\ r1.mxid = 1
          /\ r2.mxid = 2

\* the consumer handles a text event with content in this step
HandlesText ==
    /\ ConsumerHandles
    /\ OldestUnreceived.event_type = "text"
    /\ OldestUnreceived.content # None

\* the key of the Portal of the event being handled
HandledKey == <<OldestUnreceived.chat, OldestUnreceived.from>>

\* the createRoom call made in this step failed
CreateRoomFails ==
    /\ Len(create_room_calls') = Len(create_room_calls) + 1
    /\ create_room_calls'[Len(create_room_calls')].room = 0

\* an earlier createRoom call for the key of this event failed
FailedBefore ==
    \E i \in DOMAIN create_room_calls :
       /\ create_room_calls[i].key = HandledKey
       /\ create_room_calls[i].room = 0

RequestReturned(r) ==
    calls[r].pc \in {"ok", "err_timeout", "err_noconn", "err_send"}

\* the waiter of caller r is completed in this step: a response is put
\* into its oneshot channel
WaiterCompleted(r) == oneshot[r] = "empty" /\ oneshot'[r] \in Payloads

\* C33: a call that enqueued its frame and waits eventually returns, with
\* the response or with the timeout error. A waiter is completed at most
\* once: the response goes to a call that is still waiting, under the id
\* it registered, and takes that id out of the pending map, so that a
\* duplicate finds no waiter; a value once in the channel is never
\* replaced by another, it only goes away with the channel. A response that arrives after the timeout fired changes
\* neither the channel, which is dropped, nor the outcome of the call, and
\* a call that has returned keeps its outcome
C33_RequestReturnsExactlyOnce ==
    /\ \A r \in Callers :
          (calls[r].pc = "wait") ~> (calls[r].pc \in {"ok", "err_timeout"})
    /\ [][\A r \in Callers :
            /\ WaiterCompleted(r) =>
                  /\ calls[r].pc \in {"getconn", "send", "noconn", "wait"}
                  /\ calls[r].id \in DOMAIN pending_requests
                  /\ pending_requests[calls[r].id] = r
                  /\ calls[r].id \notin DOMAIN pending_requests'
            /\ oneshot[r] \in Payloads => oneshot'[r] \in {oneshot[r], "dropped"}
            /\ oneshot[r] = "dropped" => oneshot'[r] = "dropped"
            /\ calls[r].pc = "timedout" =>
                  calls'[r].pc \in {"timedout", "err_timeout"}
            /\ calls[r].pc = "wait" =>
                  calls'[r].pc \in {"wait", "ok", "timedout"}
            /\ (calls[r].pc = "wait" /\ calls'[r].pc = "ok") =>
                  oneshot[r] \in Payloads
            /\ RequestReturned(r) =>
                  calls'[r] = calls[r] /\ oneshot'[r] = oneshot[r]]_vars

\* the timeout of a call fired and, before the call removed its waiter, a
\* response with its id arrived: the waiter is gone from the pending map
\* and the channel stays dropped; the other call has returned its response
C33_Witness ==
    \E r \in Callers, q \in Callers :
       /\ calls[r].pc = "timedout"
       /\ calls[r].id \notin DOMAIN pending_requests
       /\ oneshot[r] = "dropped"
       /\ calls[q].pc = "ok"

====
